---------------------------- MODULE Spec2Model ----------------------------
(***************************************************************************)
(* Verification model of the tinygp tutorials and of the News workflow.    *)
(*                                                                         *)
(* The module holds one state machine per artefact:                        *)
(*   SpecNews    .github/workflows/news.yml (trigger, steps, outcome)      *)
(*   SpecQuasi   docs/tutorials/quasisep-custom.ipynb, cell after cell     *)
(*   SpecMeans   the mean-function tutorial, cell after cell               *)
(*   SpecInstall the install cell and the imports of every tutorial        *)
(*   SpecCells   the kernel running the code cells of one notebook         *)
(*   SpecIntro   the conditioning cells of the introduction tutorial       *)
(*   SpecCalls   single calls of the notebooks' functions on small inputs  *)
(*   SpecTrain   the training loop of the deep-kernel tutorial             *)
(* Each specification drives its own group of variables and leaves the     *)
(* other groups at their initial value.                                    *)
(***************************************************************************)
EXTENDS Integers, Sequences, FiniteSets, TLC

VARIABLES
    \* ---- News workflow (news.yml) ----
    pr,         \* the pull request event: the set of changed paths, or NoPR
    job,        \* "idle" | "skipped" | "running" | "success" | "failure"
    pc,         \* index in Steps of the next step of the running job
    log,        \* the steps that ran, in order: <<[name, exit, inputs], ...>>
    base_ref,   \* the base branch of the pull request
    \* ---- quasisep-custom.ipynb: the notebook's global names ----
    qpc,        \* the next code cell to run
    t,          \* input times (rebound by each of the three sections)
    band_id,    \* band of each point (Multiband section)
    X,          \* the structured input (t, band_id) or (t, label)
    kernel,     \* the current kernel: a sum (sequence) of wrapper terms
    R,          \* cross-band covariance (Kronecker cell)
    L,          \* its Cholesky factor
    label,      \* class of each point (Latent section)
    X_obs,      \* the observed subset of X
    soln,       \* the parameters the optimizer returned (soln.params)
    gps,        \* the GaussianProcess objects built by the cell run last
    nt,         \* number of points of the banded-noise dataset
    tsmooth,    \* the grid of test times
    yerr_meas,  \* measurement error of each point
    calib_id,   \* calibration group of each point
    caliberr,   \* calibration error of each group
    yerr_calib, \* calibration error of each point
    yerr,       \* total error of each point
    bandwidth,  \* number of off-diagonals of the band matrix
    off_diags,  \* the off-diagonals, one row per point
    noise_model, \* tinygp.noise.Banded(diag, off_diags)
    data,       \* where each data name was bound last, and its shape
    calls,      \* the calls of data-reading functions of the cell run last
    \* ---- the mean-function notebook (means): its global names ----
    mcell,      \* the next code cell to run
    X_grid,     \* the grid the mean model is plotted on
    model,      \* the mean model evaluated on X_grid
    raised,     \* the exception the cell run last ended with, or NoError
    Xm,         \* X: the sorted inputs of the simulated data
    ym,         \* y: the simulated data
    params,     \* the stacked mean and GP parameters
    loss_val,   \* the value of loss(params)
    soln_m,     \* soln.params of the optimizer
    gp_m,       \* gp = build_gp(soln.params)
    loss_v2_val, \* the value of loss_v2(params)
    \* ---- the install cell and the import statements of one notebook ----
    nb,         \* the notebook being run
    icell,      \* the cell being run
    stmt,       \* the statement of that cell to run next
    exc,        \* the exception raised inside the open try, or NoError
    importable, \* the packages an import statement finds
    modules,    \* the packages imported so far
    ops,        \* the operations run so far, in order
    \* ---- the kernel running the code cells of one notebook ----
    book,       \* the notebook being run
    queue,      \* the cells whose execute request waits, in order
    running,    \* the cells being run: {[cell, at]}, at the next statement
    bound,      \* the global names that are bound
    fdefs,      \* the functions defined: {[fn, free]}
    unbound_reads, \* the reads of a name that was not bound: {[name, line]}
    started,    \* the cells started so far, in order
    workers,    \* the chains still running inside a library call
    incall,     \* the statement whose library call has not returned, or 0
    tasks,      \* the threads, processes and tasks started by a cell's code
    \* ---- the intro notebook, section Conditioning & marginalization ----
    icond,      \* the next code cell to run
    Xc,         \* X: the sorted inputs of the made-up dataset
    yc,         \* y: the made-up data
    gp_c,       \* gp = GaussianProcess(kernel, X, diag=1e-4)
    printed,    \* the values printed so far, in order
    cond,       \* cond = gp.condition(y)
    \* ---- one call of a function of the notebooks ----
    called,     \* the function called last
    given,      \* its arguments
    returned,   \* what the call returned or raised
    \* ---- the deep-kernel notebook (transforms): data and training loop ----
    lpc,        \* the statement to run next
    x_data,     \* x: the sorted inputs of the simulated data
    y_data,     \* y: the simulated data
    t_grid,     \* t: the test inputs
    net_params, \* params: the parameters of GPLoss
    opt_state,  \* opt_state of the optimizer tx
    iter,       \* how many values range(...) has yielded
    i_loop,     \* i of the for statement
    loss_value, \* loss_val
    grads,      \* grads
    updates     \* updates

newsVars == <<pr, job, pc, log, base_ref>>

sec12Vars == <<band_id, X, kernel, R, L, label, X_obs>>

sec3Vars ==
    <<nt, tsmooth, yerr_meas, calib_id, caliberr, yerr_calib, yerr,
      bandwidth, off_diags, noise_model>>

quasiVars == <<qpc, t, soln, gps, sec12Vars, sec3Vars, data, calls>>

meansVars ==
    <<mcell, X_grid, model, raised, Xm, ym, params, loss_val, soln_m, gp_m,
      loss_v2_val>>

installVars == <<nb, icell, stmt, exc, importable, modules, ops>>

cellsVars ==
    <<book, queue, running, bound, fdefs, unbound_reads, started, workers,
      incall, tasks>>

introVars == <<icond, Xc, yc, gp_c, printed, cond>>

callVars == <<called, given, returned>>

trainVars ==
    <<lpc, x_data, y_data, t_grid, net_params, opt_state, iter, i_loop,
      loss_value, grads, updates>>

vars ==
    <<newsVars, quasiVars, meansVars, installVars, cellsVars, introVars,
      callVars, trainVars>>

(***************************************************************************)
(*                Initial values of the groups of variables                *)
(***************************************************************************)

NoPR == {"<none>"}

\* The module-level names that hold the datasets of quasisep-custom.ipynb.
DataNames ==
    {"t", "band_id", "X", "label", "X_obs", "y", "y_obs", "offset",
     "noise_model"}

InitNewsVars ==
    /\ pr = NoPR
    /\ job = "idle"
    /\ pc = 1
    /\ log = << >>
    /\ base_ref = "<none>"

\* A name that is not bound (yet, or no longer read by any later cell).
Unbound == "<unbound>"

InitQuasiVars ==
    /\ qpc = "2fd2ab5e"
    /\ t = Unbound
    /\ band_id = Unbound
    /\ X = Unbound
    /\ kernel = Unbound
    /\ R = Unbound
    /\ L = Unbound
    /\ label = Unbound
    /\ X_obs = Unbound
    /\ soln = Unbound
    /\ gps = << >>
    /\ nt = Unbound
    /\ tsmooth = Unbound
    /\ yerr_meas = Unbound
    /\ calib_id = Unbound
    /\ caliberr = Unbound
    /\ yerr_calib = Unbound
    /\ yerr = Unbound
    /\ bandwidth = Unbound
    /\ off_diags = Unbound
    /\ noise_model = Unbound
    /\ data = [n \in DataNames |->
                 [line |-> 0, sections |-> {}, shape |-> <<-1>>]]
    /\ calls = << >>

NoError == "<no error>"

InitMeansVars ==
    /\ mcell = "0b5e0fbe"
    /\ X_grid = Unbound
    /\ model = Unbound
    /\ raised = NoError
    /\ Xm = Unbound
    /\ ym = Unbound
    /\ params = Unbound
    /\ loss_val = Unbound
    /\ soln_m = Unbound
    /\ gp_m = Unbound
    /\ loss_v2_val = Unbound

InitInstallVars ==
    /\ nb = "<none>"
    /\ icell = "<none>"
    /\ stmt = 1
    /\ exc = NoError
    /\ importable = {}
    /\ modules = {}
    /\ ops = << >>

InitCellsVars ==
    /\ book = "<none>"
    /\ queue = << >>
    /\ running = {}
    /\ bound = {}
    /\ fdefs = {}
    /\ unbound_reads = {}
    /\ started = << >>
    /\ workers = {}
    /\ incall = 0
    /\ tasks = {}

InitIntroVars ==
    /\ icond = "5db9aad8"
    /\ Xc = Unbound
    /\ yc = Unbound
    /\ gp_c = Unbound
    /\ printed = << >>
    /\ cond = Unbound

InitCallVars ==
    /\ called = "<none>"
    /\ given = << >>
    /\ returned = Unbound

InitTrainVars ==
    /\ lpc = "71dd3917"
    /\ x_data = Unbound
    /\ y_data = Unbound
    /\ t_grid = Unbound
    /\ net_params = Unbound
    /\ opt_state = Unbound
    /\ iter = 0
    /\ i_loop = Unbound
    /\ loss_value = Unbound
    /\ grads = Unbound
    /\ updates = Unbound

(***************************************************************************)
(*                      News workflow: news.yml                            *)
(***************************************************************************)

\* Paths a pull request may touch: the ignored file, the same file name in a
\* sub-directory, a source file and a news fragment.
PreCommitConfig == ".pre-commit-config.yaml"
Paths ==
    { PreCommitConfig, "docs/.pre-commit-config.yaml",
      "src/tinygp/gp.py", "news/101.feature" }

\* on.pull_request.paths-ignore (news.yml:5-6)
PathsIgnore == { PreCommitConfig }

\* A paths-ignore pattern without wildcard characters matches exactly the
\* path of that name, relative to the repository root.
GlobMatch(pattern, path) == pattern = path

Ignored(path) == \E p \in PathsIgnore : GlobMatch(p, path)

\* Mutant of Triggered: one ignored path is enough to skip the workflow.
TriggeredSkipsOnAnyIgnored(changed) == \A f \in changed : ~Ignored(f)

\* paths-ignore: the workflow runs unless ALL changed paths are ignored.
Triggered(changed) == \E f \in changed : ~Ignored(f)

\* Mutant of Steps: the check step carries `continue-on-error: true`.
StepsCheckContinues ==
    << [name |-> "checkout", uses |-> "actions/checkout@v2",
        with |-> "fetch-depth: 0",
        continue_on_error |-> FALSE, always |-> FALSE],
       [name |-> "Setup Python", uses |-> "actions/setup-python@v2",
        with |-> "python-version: 3.9",
        continue_on_error |-> FALSE, always |-> FALSE],
       [name |-> "Install dependencies", uses |-> "run",
        with |-> "pip install -U pip; pip install towncrier@6b1527b6",
        continue_on_error |-> FALSE, always |-> FALSE],
       [name |-> "Check for news", uses |-> "run",
        with |-> "towncrier check --compare-with origin/main",
        continue_on_error |-> TRUE, always |-> FALSE] >>

\* jobs.news.steps (news.yml:11-25).  continue_on_error and always are the
\* keys `continue-on-error:` and `if: always()`, absent from every step.
Steps ==
    << [name |-> "checkout", uses |-> "actions/checkout@v2",
        with |-> "fetch-depth: 0",
        continue_on_error |-> FALSE, always |-> FALSE],
       [name |-> "Setup Python", uses |-> "actions/setup-python@v2",
        with |-> "python-version: 3.9",
        continue_on_error |-> FALSE, always |-> FALSE],
       [name |-> "Install dependencies", uses |-> "run",
        with |-> "pip install -U pip; pip install towncrier@6b1527b6",
        continue_on_error |-> FALSE, always |-> FALSE],
       [name |-> "Check for news", uses |-> "run",
        with |-> "towncrier check --compare-with origin/main",
        continue_on_error |-> FALSE, always |-> FALSE] >>

StepNames == [i \in 1..Len(Steps) |-> Steps[i].name]

IsFragment(path) == path = "news/101.feature"

HasFragment(changed) == \E f \in changed : IsFragment(f)

\* towncrier check --compare-with origin/main: exit status 0 when the diff
\* holds a news fragment, 1 when it holds none.
TowncrierCheck(changed) == IF HasFragment(changed) THEN 0 ELSE 1

\* Exit statuses a step can end with.  The three set-up steps depend on the
\* network and the runner and may fail; the check is decided by the diff.
StepExits(step, changed) ==
    IF step.name = "Check for news" THEN { TowncrierCheck(changed) } ELSE {0, 1}

\* Branches a pull request may target.
BaseBranches == {"main", "release-0.2"}

\* A value of a step's `with:` or `run:` text: written out in the file, or
\* an expression ${{ github.<name> }} that the runner substitutes.
Literal(text) == [kind |-> "literal", text |-> text]
Expression(name) == [kind |-> "expression", text |-> name]

\* Mutant of StepInputs: the check compares with the pull request's base.
StepInputsFromEvent ==
    << [fetch_depth |-> Literal("0")],
       [python_version |-> Literal("3.9")],
       [towncrier |-> Literal("6b1527b6bf2cbb293ef411ac4f300bd50a5c98ae")],
       [compare_with |-> Expression("base_ref")] >>

\* What each step of news.yml is given: fetch-depth, python-version, the
\* towncrier archive installed, and the --compare-with reference.
StepInputs ==
    << [fetch_depth |-> Literal("0")],
       [python_version |-> Literal("3.9")],
       [towncrier |-> Literal("6b1527b6bf2cbb293ef411ac4f300bd50a5c98ae")],
       [compare_with |-> Literal("origin/main")] >>

\* The github context of the event.
Context(name) ==
    CASE name = "base_ref" -> "origin/" \o base_ref
      [] OTHER -> ""

\* The runner writes literals through and substitutes expressions.
Resolved(inputs) ==
    [k \in DOMAIN inputs |->
        IF inputs[k].kind = "literal" THEN inputs[k].text
        ELSE Context(inputs[k].text)]

\* A pull_request event arrives; the job starts unless the paths filter
\* skips the workflow.
PullRequest ==
    /\ job = "idle"
    /\ \E changed \in (SUBSET Paths) \ {{}} :
          /\ pr' = changed
          /\ job' = IF Triggered(changed) THEN "running" ELSE "skipped"
    /\ base_ref' \in BaseBranches
    /\ UNCHANGED <<pc, log>>

\* Mutant of RunStep: a failed step does not stop the job; the later steps
\* still run and the job fails at its end.
RunStepKeepsGoing ==
    /\ job = "running"
    /\ pc <= Len(Steps)
    /\ \E exit \in StepExits(Steps[pc], pr) :
          /\ log' = Append(log, [name |-> Steps[pc].name, exit |-> exit,
                                  inputs |-> Resolved(StepInputs[pc])])
          /\ pc' = pc + 1
          /\ job' = IF pc < Len(Steps) THEN "running"
                    ELSE IF exit # 0 \/ \E i \in 1..Len(log) : log[i].exit # 0
                         THEN "failure" ELSE "success"
    /\ UNCHANGED <<pr, base_ref>>

\* The runner executes the next step.  A step that exits non-zero without
\* continue-on-error fails the job, and the remaining steps (none of which
\* is marked `if: always()`) are skipped.
RunStep ==
    /\ job = "running"
    /\ pc <= Len(Steps)
    /\ \E exit \in StepExits(Steps[pc], pr) :
          /\ log' = Append(log, [name |-> Steps[pc].name, exit |-> exit,
                                  inputs |-> Resolved(StepInputs[pc])])
          /\ IF exit # 0 /\ ~Steps[pc].continue_on_error
             THEN /\ job' = "failure"
                  /\ pc' = pc
             ELSE /\ pc' = pc + 1
                  /\ job' = IF pc = Len(Steps) THEN "success" ELSE "running"
    /\ UNCHANGED <<pr, base_ref>>

NextNews ==
    \/ PullRequest /\ UNCHANGED <<quasiVars, meansVars, installVars, cellsVars, introVars, callVars, trainVars>>
    \/ RunStep /\ UNCHANGED <<quasiVars, meansVars, installVars, cellsVars, introVars, callVars, trainVars>>

InitNews == InitNewsVars /\ InitQuasiVars /\ InitMeansVars /\ InitInstallVars
    /\ InitCellsVars /\ InitIntroVars /\ InitCallVars /\ InitTrainVars

SpecNews == InitNews /\ [][NextNews]_vars

(***************************************************************************)
(*                     Claims on the News workflow                         *)
(***************************************************************************)

CheckRan == \E i \in 1..Len(log) : log[i].name = "Check for news"

\* C1: the 'Check for news' step exits non-zero, and the job ends as failed,
\* whenever the diff against origin/main holds no news fragment; the job
\* ends as passed only if every one of its steps ran and exited zero.
C1_NoFragmentFailsJob ==
    /\ \A i \in 1..Len(log) :
          (log[i].name = "Check for news" /\ ~HasFragment(pr))
             => log[i].exit # 0
    /\ (job \in {"success", "failure"} /\ ~HasFragment(pr)) => job = "failure"
    /\ job = "success" =>
          /\ Len(log) = 4
          /\ \A i \in 1..Len(log) : log[i].exit = 0

\* The check step ran on a diff without fragment and failed the job.
C1_Witness ==
    /\ job = "failure"
    /\ Len(log) = 4
    /\ log[4].name = "Check for news"
    /\ log[4].exit # 0
    /\ ~HasFragment(pr)

\* C2: the workflow starts for a pull request unless every changed file is
\* .pre-commit-config.yaml: a pull request changing only that file never
\* starts the job, one changing it together with another path starts it.
C2_PathsIgnore ==
    job # "idle" =>
       ((job = "skipped") <=> (pr \subseteq {".pre-commit-config.yaml"}))

\* A pull request touching the ignored file and another path ran the job.
C2_Witness ==
    /\ ".pre-commit-config.yaml" \in pr
    /\ pr # {".pre-commit-config.yaml"}
    /\ job \in {"running", "success", "failure"}
    /\ Len(log) >= 1

\* C3: the steps run strictly in the order checkout (fetch-depth 0), set up
\* Python, install pip and towncrier, towncrier check; the check never
\* starts before the three earlier steps completed successfully, and a
\* failure of an earlier step ends the job as failed without the check.
C3_StepOrder ==
    LET order == << "checkout", "Setup Python",
                    "Install dependencies", "Check for news" >>
    IN  /\ Len(log) <= 4
        /\ \A i \in 1..Len(log) : log[i].name = order[i]
        /\ Steps[1].with = "fetch-depth: 0"
        /\ \A i \in 1..Len(log) :
              log[i].name = "Check for news"
                 => (i = 4 /\ \A k \in 1..(i - 1) : log[k].exit = 0)
        /\ (\E i \in 1..Len(log) :
               log[i].name # "Check for news" /\ log[i].exit # 0)
              => (job = "failure" /\ ~CheckRan)

\* The install step failed: the job is failed and the check never ran.
C3_Witness ==
    /\ job = "failure"
    /\ Len(log) = 3
    /\ log[3].name = "Install dependencies"
    /\ log[3].exit # 0
    /\ ~CheckRan

\* C18: every run of the News job sets up Python 3.9, installs the towncrier
\* archive of commit 6b1527b6bf2cbb293ef411ac4f300bd50a5c98ae and compares
\* against origin/main, whatever the pull request changes and whatever
\* branch it targets.
C18_PinnedInputs ==
    \A i \in 1..Len(log) :
       /\ log[i].name = "Setup Python" =>
             log[i].inputs.python_version = "3.9"
       /\ log[i].name = "Install dependencies" =>
             log[i].inputs.towncrier =
                "6b1527b6bf2cbb293ef411ac4f300bd50a5c98ae"
       /\ log[i].name = "Check for news" =>
             log[i].inputs.compare_with = "origin/main"

\* A pull request against another branch than main, for which all of the
\* steps ran.
C18_Witness ==
    /\ base_ref # "main"
    /\ Len(log) = 4
    /\ log[4].name = "Check for news"
    /\ log[4].inputs.compare_with = "origin/main"
    /\ "src/tinygp/gp.py" \in pr

(***************************************************************************)
(*      The notebooks as sequences of statements: names read and bound      *)
(***************************************************************************)

NotebookNames ==
    {"quasisep-custom", "means", "intro", "likelihoods", "transforms"}

\* Mutant of St: the statement that uses mcmc is run in a thread of its own.
StInThread(cell, first, last, reads, binds) ==
    [ cell |-> cell, lines |-> <<first, last>>, reads |-> reads,
      binds |-> binds, defines |-> {}, may_raise |-> FALSE, chains |-> 0,
      spawns |-> "mcmc" \in reads ]

\* A run of consecutive statements of one code cell (file lines first..last),
\* none of which reads a name bound in the run: the names it reads at top
\* level and the names it binds.  %pip lines are not Python statements.
St(cell, first, last, reads, binds) ==
    [ cell |-> cell, lines |-> <<first, last>>, reads |-> reads,
      binds |-> binds, defines |-> {}, may_raise |-> FALSE, chains |-> 0,
      spawns |-> FALSE ]

\* Mutant of Def: the global names of the body are read where the function
\* is defined.
DefReadingBody(cell, first, last, reads, fn, free) ==
    [ St(cell, first, last, reads \cup free, {fn}) EXCEPT
        !.defines = {[fn |-> fn, free |-> free]} ]

\* def / class: the decorators, bases and annotations are read when the
\* statement runs; the global names of the body (free) are read when the
\* function, or a method of the class, is called.
Def(cell, first, last, reads, fn, free) ==
    [ St(cell, first, last, reads, {fn}) EXCEPT
        !.defines = {[fn |-> fn, free |-> free]} ]

\* A statement that may end in an exception before it binds anything: the
\* import inside a try of an install cell, the cell tagged raises-exception.
MayRaise(st) == [st EXCEPT !.may_raise = TRUE]

\* A call into a library that runs n chains before it returns.
Chains(st, n) == [st EXCEPT !.chains = n]

\* The statements of quasisep-custom.ipynb, in order.
QuasisepStatements ==
    <<
       MayRaise(St("false-finder", 15, 15, {}, {"tinygp"})),
       St("false-finder", 16, 16, {"ImportError"}, {}),
       MayRaise(St("false-finder", 20, 20, {}, {"jaxopt"})),
       St("false-finder", 21, 21, {"ImportError"}, {}),
       St("b8d537cb", 69, 72, {}, {"jax", "jnp", "tinygp"}),
       St("b8d537cb", 74, 74, {"jax"}, {}),
       Def("b8d537cb", 78, 78, {"jnp", "tinygp"}, "Multiband", {}),
       Def("31ba51af", 113, 113, {}, "plot_multiband_sample", {"X",
        "band_id", "jax", "np", "plt", "t", "tinygp"}),
       St("2fd2ab5e", 136, 137, {}, {"np", "plt"}),
       St("2fd2ab5e", 139, 139, {"np"}, {"random"}),
       St("2fd2ab5e", 140, 140, {"np", "random"}, {"t"}),
       St("2fd2ab5e", 141, 141, {"len", "random", "t"}, {"band_id"}),
       St("2fd2ab5e", 142, 144, {"Multiband", "band_id", "jnp", "t",
        "tinygp"}, {"X", "kernel"}),
       St("2fd2ab5e", 149, 149, {"kernel", "plot_multiband_sample"}, {}),
       St("1bc01726", 171, 171, {"Multiband", "jnp", "tinygp"}, {"kernel"}),
       St("1bc01726", 175, 175, {"Multiband", "jnp", "kernel", "tinygp"},
        {"kernel"}),
       St("1bc01726", 179, 179, {"kernel", "plot_multiband_sample"}, {}),
       St("14f3ff8b", 202, 202, {"jnp"}, {"R"}),
       St("14f3ff8b", 205, 207, {"R", "jnp", "tinygp"}, {"L",
        "base_kernel"}),
       St("14f3ff8b", 208, 208, {"L", "Multiband", "base_kernel", "sum"},
        {"kernel"}),
       St("14f3ff8b", 209, 209, {"kernel", "plot_multiband_sample"}, {}),
       Def("81964ffa", 248, 248, {"jnp", "tinygp"}, "Latent", {"jnp"}),
       St("81964ffa", 264, 264, {"tinygp"}, {"base_kernel"}),
       St("81964ffa", 267, 271, {"Latent", "base_kernel", "np"}, {"kernel",
        "random"}),
       St("81964ffa", 272, 272, {"np", "random"}, {"t"}),
       St("81964ffa", 273, 273, {"int", "len", "random", "t"}, {"label"}),
       St("81964ffa", 274, 274, {"label", "t"}, {"X"}),
       St("81964ffa", 276, 276, {"X", "kernel", "tinygp"}, {"gp"}),
       St("81964ffa", 277, 280, {"gp", "jax", "label", "len", "random",
        "t"}, {"subset", "y"}),
       St("81964ffa", 281, 284, {"X", "random", "subset", "y"}, {"X_obs",
        "offset", "y_obs"}),
       St("81964ffa", 286, 296, {"X_obs", "label", "offset", "plt", "t",
        "y", "y_obs"}, {"_"}),
       Def("6ca4e170", 326, 326, {}, "plot_latent_samples", {"Latent", "X",
        "jax", "label", "offset", "plt", "t", "tinygp"}),
       St("eabd5827", 351, 355, {"plot_latent_samples", "plt", "tinygp"},
        {"_"}),
       St("63befc5b", 374, 378, {"plot_latent_samples", "plt", "tinygp"},
        {"_"}),
       St("4cc33cac", 397, 397, {}, {"jaxopt"}),
       Def("4cc33cac", 400, 400, {}, "build_gp", {"Latent", "X_obs", "jnp",
        "tinygp"}),
       Def("4cc33cac", 411, 411, {"jax"}, "loss", {"build_gp", "jax",
        "y_obs"}),
       St("4cc33cac", 416, 416, {"np"}, {"init"}),
       St("4cc33cac", 423, 424, {"init", "jaxopt", "loss", "print"},
        {"solver"}),
       St("4cc33cac", 425, 425, {"init", "solver"}, {"soln"}),
       St("4cc33cac", 426, 426, {"print", "soln"}, {}),
       St("f0669f55", 444, 444, {"build_gp", "soln"}, {"gp"}),
       St("f0669f55", 445, 445, {"X", "gp", "y_obs"}, {"gp_cond"}),
       St("f0669f55", 446, 454, {"gp_cond", "label", "offset", "plt", "t",
        "y"}, {"c", "mu", "var"}),
       St("f0669f55", 455, 456, {"X", "c", "offset"}, {"delta", "m"}),
       St("f0669f55", 457, 472, {"X", "X_obs", "c", "delta", "m", "mu",
        "np", "offset", "plt", "var", "y_obs"}, {"_"}),
       St("e7be326a", 506, 509, {"np"}, {"nt", "random", "tmax"}),
       St("e7be326a", 510, 522, {"np", "nt", "random", "tmax"}, {"P0",
        "amp", "dP", "t"}),
       St("e7be326a", 523, 523, {"P0", "dP", "t", "tmax"}, {"P"}),
       St("e7be326a", 524, 525, {"P", "amp", "np", "t", "tmax"}, {"tsmooth",
        "y"}),
       St("e7be326a", 526, 526, {"P0", "dP", "tmax", "tsmooth"},
        {"Psmooth"}),
       St("e7be326a", 527, 538, {"Psmooth", "amp", "dP", "np", "nt",
        "random", "tmax", "tsmooth"}, {"dysignal", "yerr_meas", "ysignal"}),
       St("e7be326a", 539, 542, {"int", "random", "t", "y", "yerr_meas"},
        {"calib_id", "y"}),
       St("e7be326a", 543, 543, {"calib_id", "random"}, {"caliberr"}),
       St("e7be326a", 544, 545, {"calib_id", "caliberr", "random", "y"},
        {"y", "yerr_calib"}),
       St("bd0488cb", 555, 556, {"np", "plt", "tsmooth", "yerr_calib",
        "yerr_meas", "ysignal"}, {"yerr"}),
       St("bd0488cb", 557, 560, {"plt", "t", "y", "yerr"}, {"_"}),
       St("fdf98c4c", 579, 579, {}, {"Counter"}),
       St("fdf98c4c", 581, 581, {"Counter", "calib_id", "max"},
        {"bandwidth"}),
       St("fdf98c4c", 582, 583, {"bandwidth", "np", "nt", "range"}, {"j",
        "off_diags"}),
       St("fdf98c4c", 584, 584, {"calib_id", "j", "nt"}, {"m"}),
       St("fdf98c4c", 585, 587, {"calib_id", "caliberr", "j", "m", "nt",
        "off_diags", "tinygp", "yerr"}, {"noise_model"}),
       St("fdf98c4c", 589, 592, {"noise_model", "np", "nt", "plt"}, {"_"}),
       St("8d7bc50a", 611, 611, {}, {"jaxopt"}),
       Def("8d7bc50a", 614, 614, {}, "build_gp", {"jnp", "noise_model", "t",
        "tinygp"}),
       Def("8d7bc50a", 624, 624, {"jax"}, "loss", {"build_gp", "jax", "y"}),
       St("8d7bc50a", 629, 629, {"jnp"}, {"init"}),
       St("8d7bc50a", 634, 635, {"init", "jaxopt", "loss", "print"},
        {"solver"}),
       St("8d7bc50a", 636, 636, {"init", "solver"}, {"soln"}),
       St("8d7bc50a", 637, 640, {"build_gp", "print", "soln"}, {"gp"}),
       St("8d7bc50a", 641, 641, {"gp", "tsmooth", "y"}, {"gp_cond"}),
       St("8d7bc50a", 642, 642, {"gp_cond"}, {"mu", "var"}),
       St("8d7bc50a", 643, 647, {"mu", "np", "plt", "t", "tsmooth", "var",
        "y", "yerr", "ysignal"}, {"std"}),
       St("8d7bc50a", 648, 651, {"mu", "plt", "std", "tsmooth"}, {"_"}) >>

\* The statements of the mean-function notebook, in order.
MeansStatements ==
    <<
       MayRaise(St("false-finder", 15, 15, {}, {"tinygp"})),
       St("false-finder", 16, 16, {"ImportError"}, {}),
       MayRaise(St("false-finder", 20, 20, {}, {"jaxopt"})),
       St("false-finder", 21, 21, {"ImportError"}, {}),
       St("0b5e0fbe", 54, 58, {}, {"jax", "jnp", "np", "partial", "plt"}),
       St("0b5e0fbe", 60, 60, {"jax"}, {}),
       Def("0b5e0fbe", 63, 63, {}, "mean_function", {"jnp"}),
       St("0b5e0fbe", 71, 77, {"np"}, {"X_grid", "mean_params"}),
       St("0b5e0fbe", 78, 78, {"X_grid", "jax", "mean_function",
        "mean_params", "partial"}, {"model"}),
       St("0b5e0fbe", 80, 83, {"X_grid", "model", "plt"}, {"_"}),
       MayRaise(St("74c2d678", 107, 107, {"X_grid", "mean_function",
        "mean_params"}, {"model"})),
       St("47be709b", 125, 125, {"X_grid", "jax", "mean_function",
        "mean_params", "partial"}, {"model"}),
       St("e6f39d09", 146, 146, {"np"}, {"random"}),
       St("e6f39d09", 147, 147, {"np", "random"}, {"X"}),
       St("e6f39d09", 148, 148, {"X", "jax", "mean_function", "mean_params",
        "partial"}, {"y"}),
       St("e6f39d09", 149, 149, {"X", "np", "y"}, {"y"}),
       St("e6f39d09", 150, 150, {"X", "len", "random", "y"}, {"y"}),
       St("e6f39d09", 151, 154, {"X", "plt", "y"}, {"_"}),
       St("1a08e708", 177, 177, {}, {"GaussianProcess", "kernels"}),
       Def("1a08e708", 180, 180, {}, "build_gp", {"GaussianProcess", "X",
        "jnp", "kernels", "mean_function", "partial"}),
       Def("1a08e708", 193, 193, {"jax"}, "loss", {"build_gp", "jax", "y"}),
       St("1a08e708", 198, 198, {"dict", "mean_params", "np"}, {"params"}),
       St("1a08e708", 204, 204, {"loss", "params"}, {}),
       St("ca431a00", 222, 222, {}, {"jaxopt"}),
       St("ca431a00", 224, 224, {"jaxopt", "loss"}, {"solver"}),
       St("ca431a00", 225, 225, {"jax", "jnp", "params", "solver"},
        {"soln"}),
       St("ca431a00", 226, 226, {"print", "soln"}, {}),
       St("e532c2bd", 246, 246, {"build_gp", "soln"}, {"gp"}),
       St("e532c2bd", 247, 247, {"X_grid", "gp", "y"}, {"_", "cond"}),
       St("e532c2bd", 249, 252, {"X", "cond", "np", "plt", "y"}, {"mu",
        "std"}),
       St("e532c2bd", 253, 259, {"X_grid", "mu", "plt", "std"}, {"_"}),
       St("c3b82deb", 279, 279, {"build_gp", "soln"}, {"gp"}),
       St("c3b82deb", 280, 280, {"X_grid", "gp", "y"}, {"_", "cond"}),
       St("c3b82deb", 282, 285, {"X", "cond", "np", "plt", "soln", "y"},
        {"mu", "std"}),
       St("c3b82deb", 286, 293, {"X_grid", "gp", "jax", "mu", "plt", "std"},
        {"_"}),
       St("ca1e2fb6", 317, 317, {"jax", "mean_function"},
        {"vmapped_mean_function"}),
       Def("ca1e2fb6", 320, 320, {}, "build_gp_v2", {"GaussianProcess", "X",
        "jnp", "kernels"}),
       Def("ca1e2fb6", 328, 328, {"jax"}, "loss_v2", {"X", "build_gp_v2",
        "jax", "vmapped_mean_function", "y"}),
       St("ca1e2fb6", 333, 333, {"loss_v2", "params"}, {}) >>

\* The statements of the introduction notebook, in order.
IntroStatements ==
    <<
       MayRaise(St("false-finder", 390, 390, {}, {"tinygp"})),
       St("false-finder", 391, 391, {"ImportError"}, {}),
       St("450a06ab", 417, 417, {}, {"jax"}),
       St("450a06ab", 419, 419, {"jax"}, {}),
       St("73df1f88", 440, 440, {}, {"kernels"}),
       St("73df1f88", 442, 442, {"kernels"}, {"kernel"}),
       St("8865c55a", 460, 461, {}, {"np", "plt"}),
       Def("8865c55a", 464, 464, {}, "plot_kernel", {"np", "plt"}),
       St("8865c55a", 471, 471, {"kernel", "plot_kernel"}, {}),
       St("4761b07e", 496, 498, {"kernel", "kernels", "plot_kernel"},
        {"kernel_scaled"}),
       St("4761b07e", 499, 501, {"kernel_scaled", "kernels", "plot_kernel"},
        {"kernel_sum"}),
       St("4761b07e", 502, 504, {"kernel_sum", "kernels", "plot_kernel"},
        {"kernel_prod"}),
       St("4761b07e", 505, 507, {"kernel_prod", "plot_kernel", "plt"},
        {"_"}),
       St("ca544e6a", 532, 535, {"np"}, {"GaussianProcess", "X"}),
       St("ca544e6a", 537, 537, {"GaussianProcess", "X", "kernel"}, {"gp"}),
       St("7a60d78d", 557, 557, {"gp", "jax"}, {"y"}),
       St("7a60d78d", 558, 561, {"X", "plt", "y"}, {"_"}),
       St("92fe5086", 580, 580, {"kernels"}, {"kernel_prod"}),
       St("92fe5086", 581, 581, {"GaussianProcess", "X", "kernel_prod"},
        {"gp"}),
       St("92fe5086", 582, 582, {"gp", "jax"}, {"y"}),
       St("92fe5086", 584, 587, {"X", "plt", "y"}, {"_"}),
       St("d56ff273", 607, 607, {"GaussianProcess", "X", "kernel"}, {"gp"}),
       St("d56ff273", 608, 608, {"gp", "jax"}, {"y_const"}),
       Def("d56ff273", 611, 611, {}, "mean_function", {"jax"}),
       St("d56ff273", 615, 615, {"GaussianProcess", "X", "kernel",
        "mean_function"}, {"gp"}),
       St("d56ff273", 616, 619, {"gp", "jax", "plt"}, {"_", "axes",
        "y_func"}),
       St("d56ff273", 620, 620, {"axes"}, {"ax"}),
       St("d56ff273", 621, 625, {"X", "ax", "axes", "y_const"}, {"ax"}),
       St("d56ff273", 626, 630, {"X", "ax", "jax", "mean_function",
        "y_func"}, {"_"}),
       St("5db9aad8", 655, 655, {"np"}, {"random"}),
       St("5db9aad8", 656, 656, {"np", "random"}, {"X"}),
       St("5db9aad8", 657, 660, {"X", "kernels", "np", "random"}, {"kernel",
        "y"}),
       St("5db9aad8", 661, 661, {"GaussianProcess", "X", "kernel"}, {"gp"}),
       St("5db9aad8", 662, 662, {"gp", "print", "y"}, {}),
       St("f7a4ee73", 682, 682, {"gp", "y"}, {"cond"}),
       St("f7a4ee73", 683, 683, {"cond", "print"}, {}),
       St("c2d51731", 702, 702, {"cond", "type"}, {}),
       St("0421532b", 721, 721, {"np"}, {"X_test"}),
       St("0421532b", 722, 722, {"X_test", "gp", "y"}, {"_", "cond_gp"}),
       St("0421532b", 726, 727, {"cond_gp", "np"}, {"mu", "std"}),
       St("0421532b", 728, 733, {"X_test", "cond_gp", "jax", "mu", "plt",
        "std"}, {"y_samp"}),
       St("0421532b", 734, 741, {"X", "X_test", "plt", "y", "y_samp"},
        {"_"}),
       St("3fcb2164", 766, 766, {}, {"jnp"}),
       Def("3fcb2164", 769, 769, {}, "build_gp", {"GaussianProcess", "X",
        "jnp", "kernels"}),
       Def("3fcb2164", 777, 777, {"jax"}, "loss", {"build_gp", "jax", "y"}),
       St("3fcb2164", 782, 782, {}, {"params"}),
       St("3fcb2164", 787, 787, {"loss", "params"}, {}) >>

\* The statements of the non-Gaussian likelihoods notebook, in order.
LikelihoodsStatements ==
    <<
       MayRaise(St("c9335ef4", 846, 846, {}, {"tinygp"})),
       St("c9335ef4", 847, 847, {"ImportError"}, {}),
       MayRaise(St("c9335ef4", 851, 851, {}, {"numpyro"})),
       St("c9335ef4", 852, 852, {"ImportError"}, {}),
       MayRaise(St("c9335ef4", 857, 857, {}, {"arviz"})),
       St("c9335ef4", 858, 858, {"ImportError"}, {}),
       St("f0047440", 888, 889, {}, {"np", "plt"}),
       St("f0047440", 891, 892, {"np"}, {"random", "x"}),
       St("f0047440", 893, 893, {"np", "x"}, {"true_log_rate"}),
       St("f0047440", 894, 894, {"np", "random", "true_log_rate"}, {"y"}),
       St("f0047440", 895, 899, {"np", "plt", "true_log_rate", "x", "y"},
        {"_"}),
       St("d0b8f667", 920, 924, {}, {"GaussianProcess", "dist", "jax",
        "jnp", "kernels", "numpyro"}),
       St("d0b8f667", 926, 926, {"jax"}, {}),
       Def("d0b8f667", 929, 929, {}, "model", {"GaussianProcess", "dist",
        "jnp", "kernels", "numpyro"}),
       St("d0b8f667", 948, 948, {"model", "numpyro"}, {"nuts_kernel"}),
       St("d0b8f667", 949, 956, {"jax", "numpyro", "nuts_kernel"}, {"mcmc",
        "rng_key"}),
       Chains(St("d0b8f667", 957, 957, {"mcmc", "rng_key", "x", "y"}, {}),
        2),
       St("d0b8f667", 958, 958, {"mcmc"}, {"samples"}),
       St("af823999", 976, 976, {"np", "samples"}, {"q"}),
       St("af823999", 977, 984, {"np", "plt", "q", "true_log_rate", "x",
        "y"}, {"_"}),
       Def("eedc1154", 1006, 1006, {}, "model", {"GaussianProcess", "dist",
        "jnp", "kernels", "numpyro"}),
       Def("eedc1154", 1028, 1028, {}, "guide", {"dist", "jnp", "numpyro"}),
       St("eedc1154", 1040, 1040, {"numpyro"}, {"optim"}),
       St("eedc1154", 1041, 1041, {"guide", "model", "numpyro", "optim"},
        {"svi"}),
       St("eedc1154", 1042, 1042, {"jax", "svi", "x", "y"}, {"results"}),
       St("6f9b351b", 1060, 1061, {"results"}, {"mu", "sigma"}),
       St("6f9b351b", 1062, 1078, {"mu", "np", "plt", "sigma",
        "true_log_rate", "x", "y"}, {"_"}) >>

\* The statements of the kernel-transforms notebook, in order.
TransformsStatements ==
    <<
       MayRaise(St("f6796277", 15, 15, {}, {"tinygp"})),
       St("f6796277", 16, 16, {"ImportError"}, {}),
       MayRaise(St("f6796277", 20, 20, {}, {"flax"})),
       St("f6796277", 21, 21, {"ImportError"}, {}),
       MayRaise(St("f6796277", 25, 25, {}, {"optax"})),
       St("f6796277", 26, 26, {"ImportError"}, {}),
       St("71dd3917", 64, 65, {}, {"np", "plt"}),
       St("71dd3917", 67, 69, {"np"}, {"noise", "random"}),
       St("71dd3917", 71, 71, {"np", "random"}, {"x"}),
       St("71dd3917", 72, 73, {"len", "noise", "np", "random", "x"}, {"t",
        "y"}),
       St("71dd3917", 75, 81, {"plt", "t", "x", "y"}, {"_"}),
       St("e0065dea", 100, 105, {}, {"GaussianProcess", "jax", "jnp",
        "kernels", "nn", "optax", "transforms", "zeros"}),
       Def("e0065dea", 109, 109, {"nn"}, "Transformer", {"nn"}),
       Def("e0065dea", 120, 120, {"nn"}, "GPLoss", {"GaussianProcess",
        "Transformer", "jnp", "kernels", "nn", "noise", "transforms",
        "zeros"}),
       Def("e0065dea", 145, 145, {}, "loss", {"model", "t", "x", "y"}),
       St("e0065dea", 149, 149, {"GPLoss"}, {"model"}),
       St("e0065dea", 150, 151, {"jax", "model", "optax", "t", "x", "y"},
        {"params", "tx"}),
       St("e0065dea", 152, 154, {"jax", "loss", "params", "range", "tx"},
        {"i", "loss_grad_fn", "opt_state"}),
       St("e0065dea", 155, 155, {"loss_grad_fn", "params"}, {"grads",
        "loss_val"}),
       St("e0065dea", 156, 156, {"grads", "opt_state", "tx"}, {"opt_state",
        "updates"}),
       St("e0065dea", 157, 160, {"optax", "params", "plt", "updates"},
        {"params"}),
       St("e0065dea", 161, 163, {"model", "params", "plt", "t", "x", "y"},
        {"mu", "var"}),
       St("e0065dea", 164, 172, {"mu", "np", "plt", "t", "var"}, {"_"}) >>

Statements(n) ==
    CASE n = "quasisep-custom" -> QuasisepStatements
      [] n = "means" -> MeansStatements
      [] n = "intro" -> IntroStatements
      [] n = "likelihoods" -> LikelihoodsStatements
      [] n = "transforms" -> TransformsStatements

\* Names Python binds before any cell runs (the builtins the cells use).
Builtins ==
    {"ImportError", "dict", "int", "len", "max", "print", "range", "sum",
     "type"}

\* The code cells of a notebook, in document order.
CellStarts(sts) ==
    {k \in DOMAIN sts : k = 1 \/ sts[k - 1].cell # sts[k].cell}

Cells(n) ==
    LET sts == Statements(n)
        first == CellStarts(sts)
    IN  [i \in 1..Cardinality(first) |->
           sts[CHOOSE k \in first :
                  Cardinality({j \in first : j <= k}) = i].cell]

FirstStatement(n, cell) ==
    CHOOSE k \in DOMAIN Statements(n) :
       /\ Statements(n)[k].cell = cell
       /\ \A j \in 1..(k - 1) : Statements(n)[j].cell # cell

\* The global names read when the names of `names` are used: a function
\* that is used is (or may at once be) called, and reads its free names.
RECURSIVE CallReads(_, _, _)
CallReads(names, defs, seen) ==
    LET fns == {d \in defs : d.fn \in names /\ d.fn \notin seen}
        free == UNION {d.free : d \in fns}
    IN  IF fns = {} THEN names
        ELSE names \cup CallReads(free, defs, seen \cup {d.fn : d \in fns})

\* The names read when a statement runs.
ReadsOf(st, defs) == CallReads(st.reads, defs, {})

(***************************************************************************)
(*        quasisep-custom.ipynb: arrays and the library's contract         *)
(***************************************************************************)

\* Arrays are 0-based, like the source's: functions on 0..n-1.
Size(a) == Cardinality(DOMAIN a)
Arrays(n, S) == [0..(n - 1) -> S]
Vec2(a, b) == [i \in 0..1 |-> IF i = 0 THEN a ELSE b]
Vec3(a, b, c) == [i \in 0..2 |-> IF i = 0 THEN a ELSE IF i = 1 THEN b ELSE c]

\* a[i] of Python, for an index that may be negative.
Item(a, i) == IF i < 0 THEN a[Size(a) + i] ELSE a[i]

\* An index a[i] accepts: numpy raises IndexError for any other.
InRange(a, i) == 0 - Size(a) <= i /\ i < Size(a)

\* a[m]: the elements of a selected by the boolean mask m, in their order.
RECURSIVE MaskedUpTo(_, _, _)
MaskedUpTo(a, m, n) ==
    IF n = 0 THEN << >>
    ELSE IF m[n - 1] THEN Append(MaskedUpTo(a, m, n - 1), a[n - 1])
         ELSE MaskedUpTo(a, m, n - 1)
ToArray(seq) == [i \in 0..(Len(seq) - 1) |-> seq[i + 1]]
Masked(a, m) == ToArray(MaskedUpTo(a, m, Size(a)))

\* np.sort: insertion of each element into the sorted prefix.
RECURSIVE InsertSorted(_, _)
InsertSorted(seq, x) ==
    IF seq = << >> THEN << x >>
    ELSE IF x < Head(seq) THEN << x >> \o seq
         ELSE << Head(seq) >> \o InsertSorted(Tail(seq), x)
RECURSIVE SortUpTo(_, _)
SortUpTo(a, n) ==
    IF n = 0 THEN << >> ELSE InsertSorted(SortUpTo(a, n - 1), a[n - 1])

\* Mutant of np_sort: the draws are used in the order they were drawn.
np_sort_omitted(a) == a

np_sort(a) == ToArray(SortUpTo(a, Size(a)))

NonDecreasing(a) ==
    \A i \in DOMAIN a : \A k \in DOMAIN a : i < k => a[i] <= a[k]

\* Scalar times vector.
Scale(c, v) == [i \in DOMAIN v |-> c * v[i]]

\* Floating-point numbers are kept with FracBits binary digits after the
\* point: the integer n stands for n / Q, and every operation rounds its
\* exact result to the nearest representable number.
FracBits == 2
Q == 2 ^ FracBits
RoundDiv(a, b) == (2 * a + b) \div (2 * b)
FMul(a, b) == RoundDiv(a * b, Q)
FSquare(a) == FMul(a, a)
\* np.sqrt: the representable number nearest to the exact root.
FSqrt(a) ==
    CHOOSE r \in 0..(a * Q + 1) :
       (2 * r - 1) * (2 * r - 1) <= 4 * a * Q /\ 4 * a * Q < (2 * r + 1) * (2 * r + 1)
FDiv(a, b) == RoundDiv(a * Q, b)
\* jnp.exp, taken to base 2: 2^e (1 + f) for the argument e + f, 0 <= f < 1,
\* rounded; it underflows to zero for large negative arguments.
FExp(x) ==
    LET e == x \div Q
        m == Q + (x % Q)
    IN  IF e >= 0 THEN m * (2 ^ e) ELSE RoundDiv(m, 2 ^ (0 - e))

\* Number of points of the Multiband dataset (700 in the notebook) and the
\* time grid its times are drawn from (uniform(0, 10)).
NPoints == 3
MaxTime == 2
TimeGrid == 0..MaxTime

\* The three bands of random.choice([0, 1, 2]).
Bands == {0, 1, 2}

\* A base kernel of tinygp.kernels.quasisep, e.g. Matern52(scale=1.5): the
\* scale is kept in tenths.
BaseKernel(name, scale) == [type |-> name, scale |-> scale]

\* observation_model of a base kernel is library code.  The model takes a
\* vector that depends on the kernel and on the time alone, and that tells
\* two kernels and two times apart.
ObservationModel(k, time) == Vec2(k.scale, time)

(***************************************************************************)
(*             Multiband (cell b8d537cb) and its three uses                *)
(***************************************************************************)

\* Multiband(kernel=..., amplitudes=...)
Multiband(base, amplitudes) ==
    [type |-> "Multiband", kernel |-> base, amplitudes |-> amplitudes]

\* Mutant of Multiband_coord_to_sortable: the band is returned.
Multiband_coord_to_sortable_band(self, Xi) == Xi[1]

\* Multiband.coord_to_sortable
Multiband_coord_to_sortable(self, Xi) == Xi[0]

\* Mutant of Multiband_observation_model: the amplitude is left out.
Multiband_observation_model_unscaled(self, Xi) ==
    ObservationModel(self.kernel, Xi[0])

\* Multiband.observation_model
Multiband_observation_model(self, Xi) ==
    Scale(self.amplitudes[Xi[1]], ObservationModel(self.kernel, Xi[0]))

\* The product of two base kernels (Matern52(...) * Cosine(...)).
Product(k1, k2) ==
    [type |-> "Product", scale |-> k1.scale * k2.scale,
     factors |-> <<k1, k2>>]

\* design_matrix of a base kernel is library code too: a matrix that
\* depends on the kernel alone.
DesignMatrix(k) == Vec2(Vec2(0, 1), Vec2(0 - k.scale, -2))

\* v @ M for a vector and a 2x2 matrix.
VecMat(v, M) == [c \in 0..1 |-> v[0] * M[0][c] + v[1] * M[1][c]]

VecSub(u, v) == [c \in DOMAIN u |-> u[c] - v[c]]

\* Latent(kernel, coeff_prim, coeff_deriv) (cell 81964ffa)
Latent(base, coeff_prim, coeff_deriv) ==
    [type |-> "Latent", kernel |-> base,
     coeff_prim |-> coeff_prim, coeff_deriv |-> coeff_deriv]

\* Latent.coord_to_sortable
Latent_coord_to_sortable(self, Xi) == Xi[0]

\* Mutant of Latent_observation_model: the derivative term is scaled by
\* coeff_prim too.
Latent_observation_model_one_coeff(self, Xi) ==
    LET time == Xi[0]
        lab == Xi[1]
        design == DesignMatrix(self.kernel)
        obs == ObservationModel(self.kernel, time)
        obs_prim == Scale(self.coeff_prim[lab], obs)
        obs_deriv == VecMat(Scale(self.coeff_prim[lab], obs), design)
    IN  VecSub(obs_prim, obs_deriv)

\* Latent.observation_model
Latent_observation_model(self, Xi) ==
    LET time == Xi[0]
        lab == Xi[1]
        design == DesignMatrix(self.kernel)
        obs == ObservationModel(self.kernel, time)
        obs_prim == Scale(self.coeff_prim[lab], obs)
        obs_deriv == VecMat(Scale(self.coeff_deriv[lab], obs), design)
    IN  VecSub(obs_prim, obs_deriv)

\* Kernels whose input coordinate is a tuple (time, integer).
Structured(k) == k.type \in {"Multiband", "Latent"}

\* Quasisep.coord_to_sortable, overridden by the two wrappers.
coord_to_sortable(k, Xi) ==
    IF k.type = "Multiband" THEN Multiband_coord_to_sortable(k, Xi)
    ELSE IF k.type = "Latent" THEN Latent_coord_to_sortable(k, Xi)
    ELSE Xi

\* Quasisep.observation_model, overridden by the two wrappers.
observation_model(k, Xi) ==
    IF k.type = "Multiband" THEN Multiband_observation_model(k, Xi)
    ELSE IF k.type = "Latent" THEN Latent_observation_model(k, Xi)
    ELSE ObservationModel(k, Xi)

\* The points of an input: (t, ids) for the wrappers, the times otherwise.
Points(k, Xs) == IF Structured(k[1]) THEN DOMAIN Xs[0] ELSE DOMAIN Xs
Coord(k, Xs, i) ==
    IF Structured(k[1]) THEN Vec2(Xs[0][i], Xs[1][i]) ELSE Xs[i]

\* coord_to_sortable over all the points of an input.
Sortables(k, Xs) ==
    [i \in Points(k, Xs) |-> coord_to_sortable(k[1], Coord(k, Xs, i))]

\* tinygp.GaussianProcess(kernel, X): the solver evaluates, for every point,
\* coord_to_sortable of the kernel and the observation model of every term
\* of the sum.  Nothing here looks at the order of the points.
GaussianProcess(k, Xs, noise) ==
    [ kernel |-> k,
      noise |-> noise,
      sortable |-> Sortables(k, Xs),
      obs |-> [i \in Points(k, Xs) |->
                 [n \in 1..Len(k) |-> observation_model(k[n], Coord(k, Xs, i))]],
      test |-> << >> ]

\* The noise of GaussianProcess(kernel, X) without diag= or noise=.
DefaultNoise == [type |-> "Diagonal", diag |-> "default"]
Diagonal(d) == [type |-> "Diagonal", diag |-> d]

\* gp.condition(y, X_test): the same kernel evaluated on the test inputs.
condition(g, X_test) == [g EXCEPT !.test = Sortables(g.kernel, X_test)]

\* plot_multiband_sample(kernel): builds the process on the global X, whose
\* value at the time of the call is Xglobal.
plot_multiband_sample(k, Xglobal) ==
    GaussianProcess(k, Xglobal, DefaultNoise)

\* The section of a line of the notebook: the headings of the second and
\* of the third section are at lines 226 and 485.
SectionOf(line) == IF line < 226 THEN 1 ELSE IF line < 485 THEN 2 ELSE 3

\* name = ... at a line: the name is bound to a value of the given shape
\* (<< >> for a scalar, <<n>> for an array, or a tuple of arrays, of n
\* points).
Rebound(dat, name, line, shape) ==
    [dat EXCEPT ![name] =
        [line |-> line, sections |-> @.sections \cup {SectionOf(line)},
         shape |-> shape]]

\* A value the model has forgotten keeps the line it was bound at.
Forgotten(dat) == [n \in DOMAIN dat |-> [dat[n] EXCEPT !.shape = <<-1>>]]

\* The functions in force at a line: for every name, its last definition
\* above the line.
DefinedAt(line) ==
    LET sts == QuasisepStatements
        above == {k \in DOMAIN sts :
                     sts[k].lines[1] < line /\ sts[k].defines # {}}
        last == {k \in above :
                    \A j \in above :
                       sts[j].defines # {} /\ j > k =>
                          {f.fn : f \in sts[j].defines}
                             \cap {f.fn : f \in sts[k].defines} = {}}
    IN  UNION {sts[k].defines : k \in last}

\* The calls of the notebook's functions that read data: the function and
\* the line of the call.
CallSites ==
    { <<"plot_multiband_sample", 149>>, <<"plot_multiband_sample", 179>>,
      <<"plot_multiband_sample", 209>>, <<"plot_latent_samples", 351>>,
      <<"plot_latent_samples", 354>>, <<"plot_latent_samples", 374>>,
      <<"plot_latent_samples", 377>>, <<"loss", 423>>, <<"loss", 425>>,
      <<"build_gp", 444>>, <<"loss", 634>>, <<"loss", 636>>,
      <<"build_gp", 640>> }

\* The data names a call reads, in the function itself or in the functions
\* it calls.
DataReads ==
    [c \in CallSites |->
        CallReads({c[1]}, DefinedAt(c[2]), {}) \cap DataNames]

\* A call of a function at a line: the data names it reads, each with its
\* binding at the time of the call.
FunctionCall(f, line, dat) ==
    [ fn |-> f, line |-> line,
      reads |-> [n \in DataReads[<<f, line>>] |-> dat[n]] ]

\* Cell 2fd2ab5e: the dataset and a single Multiband kernel.
Cell_2fd2ab5e ==
    /\ qpc = "2fd2ab5e"
    /\ \E draws \in Arrays(NPoints, TimeGrid) :
          t' = np_sort(draws)
    /\ band_id' \in Arrays(NPoints, Bands)
    /\ X' = Vec2(t', band_id')
    /\ kernel' = << Multiband(BaseKernel("Matern52", 15), Vec3(31, -11, 37)) >>
    /\ gps' = << plot_multiband_sample(kernel', X') >>
    /\ data' = Rebound(Rebound(Rebound(data, "t", 140, <<Size(t')>>),
                               "band_id", 141, <<Size(band_id')>>),
                       "X", 142, <<Size(X'[0])>>)
    /\ calls' = << FunctionCall("plot_multiband_sample", 149, data') >>
    /\ qpc' = "1bc01726"
    /\ UNCHANGED <<R, L, label, X_obs, soln, sec3Vars>>

\* Cell 1bc01726: the sum of two Multiband kernels.
Cell_1bc01726 ==
    /\ qpc = "1bc01726"
    /\ kernel' = << Multiband(BaseKernel("Matern52", 15), Vec3(9, 7, -11)),
                    Multiband(BaseKernel("Matern52", 5), Vec3(11, -17, 15)) >>
    /\ gps' = << plot_multiband_sample(kernel', X) >>
    /\ calls' = << FunctionCall("plot_multiband_sample", 179, data) >>
    /\ qpc' = "14f3ff8b"
    /\ UNCHANGED <<t, band_id, X, R, L, label, X_obs, soln, sec3Vars, data>>

\* Entries of the factors the cross-band covariances are built from.
MaxL == 1

\* A B^T for 3x3 matrices.
MatMulT(A, B) ==
    [a \in Bands |-> [b \in Bands |->
        A[a][0] * B[b][0] + A[a][1] * B[b][1] + A[a][2] * B[b][2]]]

Row3(a, b, c) == Vec3(a, b, c)

\* Lower-triangular 3x3 matrices with a positive (here constant) diagonal.
LowerTriangular ==
    { Vec3(Row3(d, 0, 0), Row3(l10, d, 0), Row3(l20, l21, d)) :
         d \in 1..(MaxL + 1),
         l10 \in 0..MaxL, l20 \in 0..MaxL, l21 \in 0..MaxL }

\* The covariances R the cell is run with: the positive definite matrices
\* whose Cholesky factor is integral (the notebook's own is 1.5^2 exp(-d^2/2)).
Covariances == { MatMulT(M, M) : M \in LowerTriangular }

\* Square root of a perfect square.
ExactSqrt(n) == CHOOSE r \in 0..n : r * r = n

\* jnp.linalg.cholesky(R): the lower-triangular factor with R = L L^T,
\* column after column.
cholesky(Rm) ==
    LET l00 == ExactSqrt(Rm[0][0])
        l10 == Rm[1][0] \div l00
        l20 == Rm[2][0] \div l00
        l11 == ExactSqrt(Rm[1][1] - l10 * l10)
        l21 == (Rm[2][1] - l20 * l10) \div l11
        l22 == ExactSqrt(Rm[2][2] - l20 * l20 - l21 * l21)
    IN  Vec3(Row3(l00, 0, 0), Row3(l10, l11, 0), Row3(l20, l21, l22))

\* Cell 14f3ff8b: one Multiband per row of L, over the same base kernel.
Cell_14f3ff8b ==
    /\ qpc = "14f3ff8b"
    /\ R' \in Covariances
    /\ L' = cholesky(R')
    /\ kernel' = [n \in 1..3 |->
                    Multiband(BaseKernel("Matern52", 15), L'[n - 1])]
    /\ gps' = << plot_multiband_sample(kernel', X) >>
    /\ calls' = << FunctionCall("plot_multiband_sample", 209, data) >>
    /\ qpc' = "feb08b7b"
    /\ UNCHANGED <<t, band_id, X, label, X_obs, soln, sec3Vars, data>>

(***************************************************************************)
(*        Latent (cell 81964ffa) and the derivative observations           *)
(***************************************************************************)

\* The heading of the section.  Every name of the Multiband section is
\* either rebound by the next cell before it is read (t, X, kernel) or not
\* read again (band_id, R, L): the model forgets their values.
Section_feb08b7b ==
    /\ qpc = "feb08b7b"
    /\ t' = Unbound
    /\ band_id' = Unbound
    /\ X' = Unbound
    /\ kernel' = Unbound
    /\ R' = Unbound
    /\ L' = Unbound
    /\ gps' = << >>
    /\ data' = Forgotten(data)
    /\ calls' = << >>
    /\ qpc' = "81964ffa"
    /\ UNCHANGED <<label, X_obs, soln, sec3Vars>>

\* The data names cell 81964ffa binds (lines 272-284): y is a sample of the
\* process on X, one value for each point, and y_obs = y[subset].
Bindings_81964ffa(dat, tv, labelv, Xv, subset, Xobsv) ==
    LET yv == [i \in DOMAIN Xv[0] |-> 0]
        b1 == Rebound(dat, "t", 272, <<Size(tv)>>)
        b2 == Rebound(b1, "label", 273, <<Size(labelv)>>)
        b3 == Rebound(b2, "X", 274, <<Size(Xv[0])>>)
        b4 == Rebound(b3, "y", 277, <<Size(yv)>>)
        b5 == Rebound(b4, "X_obs", 281, <<Size(Xobsv[0])>>)
        b6 == Rebound(b5, "y_obs", 282, <<Size(Masked(yv, subset))>>)
    IN  Rebound(b6, "offset", 284, << >>)

\* Cell 81964ffa: the Latent kernel, the simulated dataset (times sorted),
\* and the subset of it that is observed.
Cell_81964ffa ==
    /\ qpc = "81964ffa"
    /\ kernel' = << Latent(Product(BaseKernel("Matern52", 15),
                                   BaseKernel("Cosine", 25)),
                           Vec2(50, 2), Vec2(1, -20)) >>
    /\ \E draws \in Arrays(NPoints, TimeGrid) :
          t' = np_sort(draws)
    /\ label' \in Arrays(NPoints, {0, 1})
    /\ X' = Vec2(t', label')
    /\ \E subset \in Arrays(NPoints, BOOLEAN) :
          /\ X_obs' = Vec2(Masked(X'[0], subset), Masked(X'[1], subset))
          /\ data' = Bindings_81964ffa(data, t', label', X', subset, X_obs')
    /\ gps' = << GaussianProcess(kernel', X', DefaultNoise) >>
    /\ calls' = << >>
    /\ qpc' = "eabd5827"
    /\ UNCHANGED <<band_id, R, L, soln, sec3Vars>>

\* plot_latent_samples(kernel): builds the process on the global X.
plot_latent_samples(k, Xglobal) ==
    GaussianProcess(<< Latent(k, Vec2(100, 0), Vec2(0, 100)) >>,
                    Xglobal, DefaultNoise)

\* Cell eabd5827: samples of a Matern32 and of an SHO kernel.
Cell_eabd5827 ==
    /\ qpc = "eabd5827"
    /\ gps' = << plot_latent_samples(BaseKernel("Matern32", 10), X),
                 plot_latent_samples(BaseKernel("SHO", 10), X) >>
    /\ calls' = << FunctionCall("plot_latent_samples", 351, data),
                   FunctionCall("plot_latent_samples", 354, data) >>
    /\ qpc' = "63befc5b"
    /\ UNCHANGED <<t, sec12Vars, soln, sec3Vars, data>>

\* Cell 63befc5b: samples of a Matern52 and of a Cosine kernel.
Cell_63befc5b ==
    /\ qpc = "63befc5b"
    /\ gps' = << plot_latent_samples(BaseKernel("Matern52", 10), X),
                 plot_latent_samples(BaseKernel("Cosine", 10), X) >>
    /\ calls' = << FunctionCall("plot_latent_samples", 374, data),
                   FunctionCall("plot_latent_samples", 377, data) >>
    /\ qpc' = "4cc33cac"
    /\ UNCHANGED <<t, sec12Vars, soln, sec3Vars, data>>

\* The optimizer returns the initial point with its logarithmic parameters
\* displaced by a common amount in -MaxLog..MaxLog.
MaxLog == 1
LogGrid == (0 - MaxLog)..MaxLog

\* build_gp of cell 4cc33cac, on the global X_obs.
build_gp_latent(prm, X_obs_global) ==
    LET base_kernel ==
            Product(BaseKernel("Matern52", FExp(prm.log_scale)),
                    BaseKernel("Cosine", FExp(prm.log_period)))
        k == << Latent(base_kernel, prm.coeff_prim, prm.coeff_deriv) >>
    IN  GaussianProcess(k, X_obs_global, Diagonal(FExp(prm.log_diag)))

init_latent ==
    [log_scale |-> Q, log_period |-> Q,
     coeff_prim |-> Vec2(50, 2), coeff_deriv |-> Vec2(1, -20),
     log_diag |-> 0 - 3 * Q]

\* Cell 4cc33cac: the loss at init, then the optimizer; the last process
\* it builds is the one of the parameters it returns.
Cell_4cc33cac ==
    /\ qpc = "4cc33cac"
    /\ \E d \in LogGrid :
          soln' = [init_latent EXCEPT
                      !.log_scale = @ + d * Q, !.log_period = @ + d * Q,
                      !.log_diag = @ + d * Q]
    /\ gps' = << build_gp_latent(init_latent, X_obs),
                 build_gp_latent(soln', X_obs) >>
    /\ calls' = << FunctionCall("loss", 423, data),
                   FunctionCall("loss", 425, data) >>
    /\ qpc' = "f0669f55"
    /\ UNCHANGED <<t, sec12Vars, sec3Vars, data>>

\* Cell f0669f55: the optimized process, conditioned on the full X.
Cell_f0669f55 ==
    /\ qpc = "f0669f55"
    /\ gps' = << condition(build_gp_latent(soln, X_obs), X) >>
    /\ calls' = << FunctionCall("build_gp", 444, data) >>
    /\ qpc' = "8bd8f1c1"
    /\ UNCHANGED <<t, sec12Vars, soln, sec3Vars, data>>

(***************************************************************************)
(*          Banded observation model (cells e7be326a .. 8d7bc50a)          *)
(***************************************************************************)

\* The heading of the section.  The names of the Latent section are rebound
\* before they are read again (t) or not read by the cells that follow.
Section_8bd8f1c1 ==
    /\ qpc = "8bd8f1c1"
    /\ t' = Unbound
    /\ X' = Unbound
    /\ kernel' = Unbound
    /\ label' = Unbound
    /\ X_obs' = Unbound
    /\ soln' = Unbound
    /\ gps' = << >>
    /\ data' = Forgotten(data)
    /\ calls' = << >>
    /\ qpc' = "e7be326a"
    /\ UNCHANGED <<band_id, R, L, sec3Vars>>

\* nt ranges over 0..MaxNt (100 in the notebook), tmax is the notebook's 20
\* scaled down, and times are kept in steps of 1 / Ticks.
MaxNt == 5
tmax == 4
Ticks == 2

\* random.uniform(0, tmax / 3) and random.uniform(2 * tmax / 3, tmax)
Group1 == { k \in 0..(tmax * Ticks) : 3 * k < tmax * Ticks }
Group2 == { k \in 0..(tmax * Ticks) :
               2 * tmax * Ticks <= 3 * k /\ k < tmax * Ticks }

np_concatenate(a, b) ==
    [i \in 0..(Size(a) + Size(b) - 1) |->
        IF i < Size(a) THEN a[i] ELSE b[i - Size(a)]]

\* Number of test times (2000 in the notebook).
NSmooth == 3

\* np.linspace(0, stop, n) for n >= 2, in ticks.
np_linspace(stop, n) == [i \in 0..(n - 1) |-> RoundDiv(i * stop, n - 1)]

\* random.uniform(0.5, 1.5, n): the arrays drawn are the constant 1.0 and
\* the ramp 0.5, 1.0, 1.5, 0.5, ...
Half == Q \div 2
ErrArrays(n) ==
    { [i \in 0..(n - 1) |-> Q],
      [i \in 0..(n - 1) |-> Half + (i % 3) * Half] }

\* Mutant of Bindings_e7be326a: the cell simulates no data y.
Bindings_e7be326a_without_y(dat, tv, yerr_measv, calib_idv) ==
    Rebound(dat, "t", 510, <<Size(tv)>>)

\* The data names cell e7be326a binds (lines 510-545): y = amp * sin(...t)
\* has one value for each time, and stays of that length when the noise of
\* yerr_meas is added (line 539) and, unless the cell has stopped at line
\* 543, when the noise of caliberr[calib_id] is added (line 545).
Bindings_e7be326a(dat, tv, yerr_measv, calib_idv) ==
    LET b1 == Rebound(dat, "t", 510, <<Size(tv)>>)
        b2 == Rebound(b1, "y", 524, <<Size(tv)>>)
        b3 == Rebound(b2, "y", 539, <<Size(yerr_measv)>>)
    IN  IF Size(tv) = 0 THEN b3
        ELSE Rebound(b3, "y", 545, <<Size(calib_idv)>>)

\* Mutant of CaliberrSize: one calibration error too few is drawn.
CaliberrSizeOfLast(ids) == Item(ids, -1)

\* The number of calibration errors drawn: calib_id[-1] + 1 (line 543).
CaliberrSize(ids) == Item(ids, -1) + 1

\* Mutant of GroupSizes: both groups have nt // 2 points.
GroupSizesHalved(n) == <<n \div 2, n \div 2>>

\* The sizes of the two groups of times: nt // 2 and (nt + 1) // 2
\* (lines 513-514).
GroupSizes(n) == <<n \div 2, (n + 1) \div 2>>

\* Cell e7be326a: the simulated dataset.  With nt = 0 the cell stops at
\* calib_id[-1] with an IndexError, t, yerr_meas and calib_id being bound;
\* it would stop at caliberr[calib_id] if one of the indices were out of
\* range.
Cell_e7be326a ==
    /\ qpc = "e7be326a"
    /\ nt' \in 0..MaxNt
    /\ \E g1 \in Arrays(GroupSizes(nt')[1], Group1) :
          \E g2 \in Arrays(GroupSizes(nt')[2], Group2) :
             t' = np_sort(np_concatenate(g1, g2))
    /\ tsmooth' = np_linspace(tmax * Ticks, NSmooth)
    /\ yerr_meas' \in ErrArrays(nt')
    /\ calib_id' = [i \in DOMAIN t' |-> t'[i] \div Ticks]
    /\ IF ~InRange(calib_id', -1)
       THEN /\ caliberr' = Unbound
            /\ yerr_calib' = Unbound
            /\ qpc' = "IndexError"
       ELSE /\ caliberr' \in ErrArrays(CaliberrSize(calib_id'))
            /\ IF \A i \in DOMAIN calib_id' : InRange(caliberr', calib_id'[i])
               THEN /\ yerr_calib' =
                          [i \in DOMAIN t' |-> Item(caliberr', calib_id'[i])]
                    /\ qpc' = "bd0488cb"
               ELSE /\ yerr_calib' = Unbound
                    /\ qpc' = "IndexError"
    /\ gps' = << >>
    /\ data' = Bindings_e7be326a(data, t', yerr_meas', calib_id')
    /\ calls' = << >>
    /\ UNCHANGED <<sec12Vars, soln, yerr, bandwidth, off_diags, noise_model>>

\* Cell bd0488cb: yerr = np.sqrt(yerr_meas**2 + yerr_calib**2)
Cell_bd0488cb ==
    /\ qpc = "bd0488cb"
    /\ yerr' = [i \in DOMAIN yerr_meas |->
                  FSqrt(FSquare(yerr_meas[i]) + FSquare(yerr_calib[i]))]
    /\ gps' = << >>
    /\ calls' = << >>
    /\ qpc' = "fdf98c4c"
    /\ UNCHANGED <<t, sec12Vars, soln, nt, tsmooth, yerr_meas, calib_id,
                   caliberr, yerr_calib, bandwidth, off_diags, noise_model,
                   data>>

\* max(Counter(calib_id).values())
MaxCount(ids) ==
    LET count(c) == Cardinality({i \in DOMAIN ids : ids[i] = c})
    IN  CHOOSE n \in 1..Size(ids) :
           /\ \E i \in DOMAIN ids : count(ids[i]) = n
           /\ \A i \in DOMAIN ids : count(ids[i]) <= n

\* Mutant of OffDiagsBody: the mask compares the points j apart, not j + 1.
OffDiagsBodyShifted(off, j, n, ids, cerr) ==
    [i \in DOMAIN off |->
        [c \in DOMAIN off[i] |->
            IF c = j /\ i < n - j - 1 /\ ids[i] = ids[i + j]
            THEN FSquare(cerr[ids[i]])
            ELSE off[i][c]]]

\* The body of the loop over j:
\*   m = calib_id[: nt - j - 1] == calib_id[j + 1 :]
\*   off_diags[: nt - j - 1, j][m] = caliberr[calib_id[: nt - j - 1][m]] ** 2
OffDiagsBody(off, j, n, ids, cerr) ==
    [i \in DOMAIN off |->
        [c \in DOMAIN off[i] |->
            IF c = j /\ i < n - j - 1 /\ ids[i] = ids[i + j + 1]
            THEN FSquare(cerr[ids[i]])
            ELSE off[i][c]]]

\* for j in range(bandwidth), from j on.
RECURSIVE OffDiagsLoop(_, _, _, _, _, _)
OffDiagsLoop(off, j, bw, n, ids, cerr) ==
    IF j >= bw THEN off
    ELSE OffDiagsLoop(OffDiagsBody(off, j, n, ids, cerr), j + 1, bw, n, ids, cerr)

\* tinygp.noise.Banded(diag=..., off_diags=...)
Banded(diag, off) == [type |-> "Banded", diag |-> diag, off_diags |-> off]

\* Cell fdf98c4c: the band matrix of the calibration noise.
Cell_fdf98c4c ==
    /\ qpc = "fdf98c4c"
    /\ bandwidth' = MaxCount(calib_id) - 1
    /\ off_diags' =
          OffDiagsLoop([i \in 0..(nt - 1) |-> [c \in 0..(bandwidth' - 1) |-> 0]],
                       0, bandwidth', nt, calib_id, caliberr)
    /\ noise_model' =
          Banded([i \in DOMAIN yerr |-> FSquare(yerr[i])], off_diags')
    /\ gps' = << >>
    /\ data' = Rebound(data, "noise_model", 587, <<Size(noise_model'.diag)>>)
    /\ calls' = << >>
    /\ qpc' = "8d7bc50a"
    /\ UNCHANGED <<t, sec12Vars, soln, nt, tsmooth, yerr_meas, calib_id,
                   caliberr, yerr_calib, yerr>>

\* tinygp.kernels.quasisep.SHO(sigma=, quality=, omega=)
SHO(sigma, quality, omega) ==
    [type |-> "SHO", scale |-> omega, sigma |-> sigma, quality |-> quality]

\* build_gp of cell 8d7bc50a, on the global t and noise_model.
build_gp_sho(prm, t_global, noise_global) ==
    LET k == << SHO(FExp(prm.log_sigma), FExp(prm.log_quality),
                    FExp(prm.log_omega)) >>
    IN  GaussianProcess(k, t_global, noise_global)

init_sho == [log_sigma |-> 0 - Q, log_quality |-> 2 * Q, log_omega |-> 0]

\* Cell 8d7bc50a: the loss at init, the optimizer, and the prediction on
\* tsmooth of the process of the returned parameters.
Cell_8d7bc50a ==
    /\ qpc = "8d7bc50a"
    /\ \E d \in LogGrid :
          soln' = [init_sho EXCEPT
                      !.log_sigma = @ + d * Q, !.log_quality = @ + d * Q,
                      !.log_omega = @ + d * Q]
    /\ gps' = << build_gp_sho(init_sho, t, noise_model),
                 build_gp_sho(soln', t, noise_model),
                 condition(build_gp_sho(soln', t, noise_model), tsmooth) >>
    /\ calls' = << FunctionCall("loss", 634, data),
                   FunctionCall("loss", 636, data),
                   FunctionCall("build_gp", 640, data) >>
    /\ qpc' = "done"
    /\ UNCHANGED <<t, sec12Vars, sec3Vars, data>>

NextQuasi ==
    \/ Cell_2fd2ab5e /\ UNCHANGED <<newsVars, meansVars, installVars, cellsVars, introVars, callVars, trainVars>>
    \/ Cell_1bc01726 /\ UNCHANGED <<newsVars, meansVars, installVars, cellsVars, introVars, callVars, trainVars>>
    \/ Cell_14f3ff8b /\ UNCHANGED <<newsVars, meansVars, installVars, cellsVars, introVars, callVars, trainVars>>
    \/ Section_feb08b7b /\ UNCHANGED <<newsVars, meansVars, installVars, cellsVars, introVars, callVars, trainVars>>
    \/ Cell_81964ffa /\ UNCHANGED <<newsVars, meansVars, installVars, cellsVars, introVars, callVars, trainVars>>
    \/ Cell_eabd5827 /\ UNCHANGED <<newsVars, meansVars, installVars, cellsVars, introVars, callVars, trainVars>>
    \/ Cell_63befc5b /\ UNCHANGED <<newsVars, meansVars, installVars, cellsVars, introVars, callVars, trainVars>>
    \/ Cell_4cc33cac /\ UNCHANGED <<newsVars, meansVars, installVars, cellsVars, introVars, callVars, trainVars>>
    \/ Cell_f0669f55 /\ UNCHANGED <<newsVars, meansVars, installVars, cellsVars, introVars, callVars, trainVars>>
    \/ Section_8bd8f1c1 /\ UNCHANGED <<newsVars, meansVars, installVars, cellsVars, introVars, callVars, trainVars>>
    \/ Cell_e7be326a /\ UNCHANGED <<newsVars, meansVars, installVars, cellsVars, introVars, callVars, trainVars>>
    \/ Cell_bd0488cb /\ UNCHANGED <<newsVars, meansVars, installVars, cellsVars, introVars, callVars, trainVars>>
    \/ Cell_fdf98c4c /\ UNCHANGED <<newsVars, meansVars, installVars, cellsVars, introVars, callVars, trainVars>>
    \/ Cell_8d7bc50a /\ UNCHANGED <<newsVars, meansVars, installVars, cellsVars, introVars, callVars, trainVars>>

InitQuasi == InitNewsVars /\ InitQuasiVars /\ InitMeansVars /\ InitInstallVars
    /\ InitCellsVars /\ InitIntroVars /\ InitCallVars /\ InitTrainVars

SpecQuasi == InitQuasi /\ [][NextQuasi]_vars

(***************************************************************************)
(*                 The mean-function notebook (means)                      *)
(***************************************************************************)

\* A jax value: a scalar, a one-dimensional array, or the error an
\* operation ended with.
Scalar(v) == [ndim |-> 0, val |-> v]
Array1(a) == [ndim |-> 1, val |-> a]
TypeError == [ndim |-> -1, val |-> "TypeError"]
IsError(v) == v.ndim = -1

\* jnp.array([a, b]): the two elements must have the same shape; the model
\* needs it for scalars only.
jnp_array2(a, b) ==
    IF a.ndim = 0 /\ b.ndim = 0 THEN Array1(Vec2(a.val, b.val)) ELSE TypeError

\* amps @ beta for two vectors of the same length.
matmul(u, v) ==
    IF v.ndim = 1 /\ Size(v.val) = Size(u)
    THEN Scalar(FMul(u[0], v.val[0]) + FMul(u[1], v.val[1]))
    ELSE TypeError

\* Mutant of mean_function: beta is built by broadcasting, [ones, mod].
mean_function_broadcast(prm, Xv) ==
    LET bump(x) ==
            FExp(FMul(0 - Half,
                      FSquare(FDiv(x - prm.loc, FExp(prm.log_width)))))
    IN  IF Xv.ndim = 0
        THEN Scalar(FMul(prm.amps[0], Q) + FMul(prm.amps[1], bump(Xv.val)))
        ELSE Array1([i \in DOMAIN Xv.val |->
                        FMul(prm.amps[0], Q)
                        + FMul(prm.amps[1], bump(Xv.val[i]))])

\* Mutant of mean_function: beta is [mod, 1], so that amps[0] scales the
\* bump and amps[1] is the zero point.
mean_function_beta_swapped(prm, Xv) ==
    LET bump(x) ==
            FExp(FMul(0 - Half,
                      FSquare(FDiv(x - prm.loc, FExp(prm.log_width)))))
        mod == IF Xv.ndim = 0 THEN Scalar(bump(Xv.val))
               ELSE Array1([i \in DOMAIN Xv.val |-> bump(Xv.val[i])])
        beta == jnp_array2(mod, Scalar(Q))
    IN  IF IsError(beta) THEN beta ELSE matmul(prm.amps, beta)

\* mean_function(params, X) (cell 0b5e0fbe)
mean_function(prm, Xv) ==
    LET bump(x) ==
            FExp(FMul(0 - Half,
                      FSquare(FDiv(x - prm.loc, FExp(prm.log_width)))))
        mod == IF Xv.ndim = 0 THEN Scalar(bump(Xv.val))
               ELSE Array1([i \in DOMAIN Xv.val |-> bump(Xv.val[i])])
        beta == jnp_array2(Scalar(Q), mod)
    IN  IF IsError(beta) THEN beta ELSE matmul(prm.amps, beta)

\* jax.vmap(partial(mean_function, params))(X), and
\* jax.vmap(mean_function, in_axes=(None, 0))(params, X): the function is
\* applied to each element of X, and the results are stacked.
vmapped_mean_function(prm, Xa) ==
    LET each == [i \in DOMAIN Xa |-> mean_function(prm, Scalar(Xa[i]))]
    IN  IF \E i \in DOMAIN Xa : each[i].ndim # 0 THEN TypeError
        ELSE Array1([i \in DOMAIN Xa |-> each[i].val])

\* mean_params of cell 0b5e0fbe (amps 0.1 and 0.3, loc 5, width 0.5, scaled
\* to the numbers kept).
mean_params == [amps |-> Vec2(Half, Q), loc |-> Q, log_width |-> 0 - Q]

\* Lengths of X_grid (200 in the notebook).
MaxGrid == 3

\* Cell 0b5e0fbe: mean_function, mean_params and the model on X_grid.
M_0b5e0fbe ==
    /\ mcell = "0b5e0fbe"
    /\ \E n \in 2..MaxGrid : X_grid' = np_linspace(MaxTime * Q, n)
    /\ model' = vmapped_mean_function(mean_params, X_grid')
    /\ raised' = NoError
    /\ mcell' = "74c2d678"
    /\ UNCHANGED <<Xm, ym, params, loss_val, soln_m, gp_m, loss_v2_val>>

\* Cell 74c2d678 (tagged raises-exception): the direct call on the vector.
\* An error leaves `model` as it was, and the notebook goes on.
M_74c2d678 ==
    /\ mcell = "74c2d678"
    /\ LET r == mean_function(mean_params, Array1(X_grid))
       IN  IF IsError(r)
           THEN /\ raised' = r.val
                /\ model' = model
           ELSE /\ raised' = NoError
                /\ model' = r
    /\ mcell' = "47be709b"
    /\ UNCHANGED <<X_grid, Xm, ym, params, loss_val, soln_m, gp_m, loss_v2_val>>

\* Cell 47be709b: the call through jax.vmap.
M_47be709b ==
    /\ mcell = "47be709b"
    /\ model' = vmapped_mean_function(mean_params, X_grid)
    /\ raised' = NoError
    /\ mcell' = "e6f39d09"
    /\ UNCHANGED <<X_grid, Xm, ym, params, loss_val, soln_m, gp_m, loss_v2_val>>

\* Cell e6f39d09: the simulated data, the mean model plus a trend and noise.
M_e6f39d09 ==
    /\ mcell = "e6f39d09"
    /\ \E draws \in Arrays(NPoints, {k * Q : k \in TimeGrid}) :
          Xm' = np_sort(draws)
    /\ \E e \in {0, 1} :
          ym' = [i \in DOMAIN Xm' |->
                   vmapped_mean_function(mean_params, Xm').val[i] + e * (i + 1)]
    /\ raised' = NoError
    /\ mcell' = "1a08e708"
    /\ UNCHANGED <<X_grid, model, params, loss_val, soln_m, gp_m, loss_v2_val>>

\* partial(mean_function, params), and the mean of a process built without
\* the mean argument.
Partial(prm) == [func |-> "mean_function", args |-> prm]
ZeroMean == [func |-> "zero", args |-> << >>]

\* tinygp.GaussianProcess(kernel, X, diag=..., mean=...): the process keeps
\* the mean at the inputs, mean being applied to one coordinate at a time.
GaussianProcessMean(k, Xs, diag, mean) ==
    [ kernel |-> k, X |-> Xs, diag |-> diag,
      loc |-> IF mean.func = "zero" THEN [i \in DOMAIN Xs |-> 0]
              ELSE vmapped_mean_function(mean.args, Xs).val ]

\* GaussianProcess.log_probability(y): the Gaussian log-density of the
\* residual y - loc; it is kept as the term of its arguments, so that two
\* values are equal when, and only when, they are densities of the same
\* residual under the same kernel, inputs and noise.
log_probability(g, y) ==
    [ kernel |-> g.kernel, X |-> g.X, diag |-> g.diag,
      resid |-> [i \in DOMAIN y |-> y[i] - g.loc[i]] ]

Neg(v) == [neg |-> v]

\* Mutant of ScaledMatern52: the parameters are used without jnp.exp.
ScaledMatern52_unconstrained(prm) ==
    [type |-> "Matern52", amp |-> prm.log_gp_amp,
     scale |-> prm.log_gp_scale]

\* jnp.exp(params["log_gp_amp"]) * kernels.Matern52(jnp.exp(...))
ScaledMatern52(prm) ==
    [type |-> "Matern52", amp |-> FExp(prm.log_gp_amp),
     scale |-> FExp(prm.log_gp_scale)]

\* build_gp and loss of cell 1a08e708, on the global X and y.
build_gp(prm, X_global) ==
    GaussianProcessMean(ScaledMatern52(prm), X_global,
                        FExp(prm.log_gp_diag), Partial(prm))

loss(prm, X_global, y_global) ==
    Neg(log_probability(build_gp(prm, X_global), y_global))

\* The parameter sets the functions are evaluated at: the notebook's
\* (log_gp_amp, log_gp_scale, log_gp_diag, **mean_params) and its neighbours.
ParamSets ==
    { [log_gp_amp |-> (d - 3) * Q, log_gp_scale |-> (d + 1) * Q,
       log_gp_diag |-> (d - 3) * Q,
       amps |-> a, loc |-> l, log_width |-> w] :
         d \in LogGrid, a \in {mean_params.amps, Vec2(0, Half)},
         l \in {Q, 2 * Q}, w \in {0 - Q, 0} }

\* Cell 1a08e708: build_gp, loss, params and loss(params).
M_1a08e708 ==
    /\ mcell = "1a08e708"
    /\ params' \in ParamSets
    /\ loss_val' = loss(params', Xm, ym)
    /\ raised' = NoError
    /\ mcell' = "ca431a00"
    /\ UNCHANGED <<X_grid, model, Xm, ym, soln_m, gp_m, loss_v2_val>>

\* Cell ca431a00: the optimizer, started at params.
M_ca431a00 ==
    /\ mcell = "ca431a00"
    /\ \E d \in LogGrid :
          soln_m' = [params EXCEPT !.log_gp_amp = @ + d * Q,
                                   !.log_gp_scale = @ + d * Q,
                                   !.log_gp_diag = @ + d * Q]
    /\ raised' = NoError
    /\ mcell' = "e532c2bd"
    /\ UNCHANGED <<X_grid, model, Xm, ym, params, loss_val, gp_m, loss_v2_val>>

\* Cells e532c2bd and c3b82deb: gp = build_gp(soln.params) and its plots.
M_e532c2bd ==
    /\ mcell = "e532c2bd"
    /\ gp_m' = build_gp(soln_m, Xm)
    /\ raised' = NoError
    /\ mcell' = "c3b82deb"
    /\ UNCHANGED <<X_grid, model, Xm, ym, params, loss_val, soln_m, loss_v2_val>>

M_c3b82deb ==
    /\ mcell = "c3b82deb"
    /\ gp_m' = build_gp(soln_m, Xm)
    /\ raised' = NoError
    /\ mcell' = "ca1e2fb6"
    /\ UNCHANGED <<X_grid, model, Xm, ym, params, loss_val, soln_m, loss_v2_val>>

\* build_gp_v2 of cell ca1e2fb6: the same process without the mean.
build_gp_v2(prm, X_global) ==
    GaussianProcessMean(ScaledMatern52(prm), X_global,
                        FExp(prm.log_gp_diag), ZeroMean)

\* Mutant of loss_v2: the mean function is not subtracted from the data.
loss_v2_mean_forgotten(prm, X_global, y_global) ==
    Neg(log_probability(build_gp_v2(prm, X_global), y_global))

\* loss_v2 of cell ca1e2fb6.
loss_v2(prm, X_global, y_global) ==
    LET mean == vmapped_mean_function(prm, X_global).val
    IN  Neg(log_probability(build_gp_v2(prm, X_global),
                            [i \in DOMAIN y_global |-> y_global[i] - mean[i]]))

\* Cell ca1e2fb6: loss_v2(params).
M_ca1e2fb6 ==
    /\ mcell = "ca1e2fb6"
    /\ loss_v2_val' = loss_v2(params, Xm, ym)
    /\ raised' = NoError
    /\ mcell' = "done"
    /\ UNCHANGED <<X_grid, model, Xm, ym, params, loss_val, soln_m, gp_m>>

NextMeans ==
    \/ M_0b5e0fbe /\ UNCHANGED <<newsVars, quasiVars, installVars, cellsVars, introVars, callVars, trainVars>>
    \/ M_74c2d678 /\ UNCHANGED <<newsVars, quasiVars, installVars, cellsVars, introVars, callVars, trainVars>>
    \/ M_47be709b /\ UNCHANGED <<newsVars, quasiVars, installVars, cellsVars, introVars, callVars, trainVars>>
    \/ M_e6f39d09 /\ UNCHANGED <<newsVars, quasiVars, installVars, cellsVars, introVars, callVars, trainVars>>
    \/ M_1a08e708 /\ UNCHANGED <<newsVars, quasiVars, installVars, cellsVars, introVars, callVars, trainVars>>
    \/ M_ca431a00 /\ UNCHANGED <<newsVars, quasiVars, installVars, cellsVars, introVars, callVars, trainVars>>
    \/ M_e532c2bd /\ UNCHANGED <<newsVars, quasiVars, installVars, cellsVars, introVars, callVars, trainVars>>
    \/ M_c3b82deb /\ UNCHANGED <<newsVars, quasiVars, installVars, cellsVars, introVars, callVars, trainVars>>
    \/ M_ca1e2fb6 /\ UNCHANGED <<newsVars, quasiVars, installVars, cellsVars, introVars, callVars, trainVars>>

InitMeans == InitNewsVars /\ InitQuasiVars /\ InitMeansVars /\ InitInstallVars
    /\ InitCellsVars /\ InitIntroVars /\ InitCallVars /\ InitTrainVars

SpecMeans == InitMeans /\ [][NextMeans]_vars

(***************************************************************************)
(*        The install cell and the import statements of the notebooks      *)
(***************************************************************************)

Notebooks == {"quasisep-custom", "means", "intro", "likelihoods", "transforms"}

\* One statement of a cell, and one try statement of an install cell.
Statement(op, pkgs) == [op |-> op, pkgs |-> pkgs]
Try(pkg, handler) == [import |-> pkg, handler |-> handler]
PipInstall(pkg) == Try(pkg, <<Statement("pip install", {pkg})>>)

\* Mutant of InstallCell: every handler imports again after installing.
InstallCellRetrying(n) ==
    LET Retry(pkg) == Try(pkg, <<Statement("pip install", {pkg}),
                                 Statement("import", {pkg})>>)
    IN  [ id |-> "false-finder", body |-> <<Retry("tinygp")>> ]

\* Mutant of InstallCell: the numpyro handler installs first and uninstalls
\* jax and jaxlib afterwards.
InstallCellUninstallingLast(n) ==
    CASE n = "likelihoods" ->
           [ id |-> "c9335ef4",
             body |-> << PipInstall("tinygp"),
                         Try("numpyro",
                             << Statement("pip install",
                                          {"numpyro", "jax", "jaxlib"}),
                                Statement("pip uninstall", {"jax", "jaxlib"}) >>),
                         PipInstall("arviz") >> ]
      [] n = "transforms" ->
           [ id |-> "f6796277",
             body |-> <<PipInstall("tinygp"), PipInstall("flax"),
                        PipInstall("optax")>> ]
      [] n = "intro" ->
           [ id |-> "false-finder", body |-> <<PipInstall("tinygp")>> ]
      [] OTHER ->
           [ id |-> "false-finder",
             body |-> <<PipInstall("tinygp"), PipInstall("jaxopt")>> ]

\* The first code cell of each notebook.
InstallCell(n) ==
    CASE n \in {"quasisep-custom", "means"} ->
           [ id |-> "false-finder",
             body |-> <<PipInstall("tinygp"), PipInstall("jaxopt")>> ]
      [] n = "intro" ->
           [ id |-> "false-finder", body |-> <<PipInstall("tinygp")>> ]
      [] n = "likelihoods" ->
           [ id |-> "c9335ef4",
             body |-> << PipInstall("tinygp"),
                         Try("numpyro",
                             << Statement("pip uninstall", {"jax", "jaxlib"}),
                                Statement("pip install",
                                          {"numpyro", "jax", "jaxlib"}) >>),
                         PipInstall("arviz") >> ]
      [] n = "transforms" ->
           [ id |-> "f6796277",
             body |-> <<PipInstall("tinygp"), PipInstall("flax"),
                        PipInstall("optax")>> ]

\* The later import statements of the packages the install cell looks for,
\* with the cell each of them is in.
Import(cell, pkg) == [cell |-> cell, import |-> pkg]

LaterImports(n) ==
    CASE n = "quasisep-custom" ->
           << Import("b8d537cb", "tinygp"), Import("4cc33cac", "jaxopt"),
              Import("8d7bc50a", "jaxopt") >>
      [] n = "means" ->
           << Import("1a08e708", "tinygp"), Import("ca431a00", "jaxopt") >>
      [] n = "intro" ->
           << Import("73df1f88", "tinygp"), Import("ca544e6a", "tinygp") >>
      [] n = "likelihoods" ->
           << Import("d0b8f667", "numpyro"), Import("d0b8f667", "tinygp") >>
      [] n = "transforms" ->
           << Import("e0065dea", "optax"), Import("e0065dea", "flax"),
              Import("e0065dea", "tinygp") >>

\* The packages the environment of a notebook may or may not have.
Packages(n) ==
    UNION { UNION { InstallCell(n).body[k].handler[j].pkgs :
                      j \in DOMAIN InstallCell(n).body[k].handler } :
              k \in DOMAIN InstallCell(n).body }

\* Python's exception classes: ModuleNotFoundError derives from ImportError.
IsSubclass(e, c) ==
    \/ e = c
    \/ e = "ModuleNotFoundError" /\ c = "ImportError"

\* One executed operation: where it ran, what it was, whether it failed, and
\* whether it ran inside an except block.
Op(cell, k, st, failed, handler) ==
    [ cell |-> cell, stmt |-> k, op |-> st.op, pkgs |-> st.pkgs,
      failed |-> failed, handler |-> handler ]

\* The environment after one statement; ok says whether pip reaches its index.
Exec(st, imp, ok) ==
    CASE st.op = "pip install" -> IF ok THEN imp \cup st.pkgs ELSE imp
      [] st.op = "pip uninstall" -> imp \ st.pkgs
      [] OTHER -> imp

RECURSIVE After(_, _, _, _)
After(body, k, imp, ok) ==
    IF k = 0 THEN imp ELSE Exec(body[k], After(body, k - 1, imp, ok), ok)

Fails(body, k, imp, ok) ==
    CASE body[k].op = "pip install" -> ~ok
      [] body[k].op = "import" ->
           ~(body[k].pkgs \subseteq After(body, k - 1, imp, ok))
      [] OTHER -> FALSE

\* Moving past statement k of a cell with n statements.
Advance(k, n, nextCell) ==
    IF k < n THEN icell' = icell /\ stmt' = k + 1
    ELSE icell' = nextCell /\ stmt' = 1

\* The kernel starts on one of the notebooks, in some environment.
OpenNotebook ==
    /\ nb = "<none>"
    /\ \E n \in Notebooks :
          /\ nb' = n
          /\ icell' = InstallCell(n).id
          /\ importable' \in SUBSET Packages(n)
    /\ stmt' = 1
    /\ UNCHANGED <<exc, modules, ops>>

\* try: import <package>
TryImport ==
    /\ nb # "<none>"
    /\ icell = InstallCell(nb).id
    /\ exc = NoError
    /\ LET cell == InstallCell(nb)
           pkg == cell.body[stmt].import
           st == Statement("import", {pkg})
       IN  IF pkg \in importable
           THEN /\ modules' = modules \cup {pkg}
                /\ ops' = Append(ops, Op(cell.id, stmt, st, FALSE, FALSE))
                /\ Advance(stmt, Len(cell.body), "imports")
                /\ exc' = NoError
           ELSE /\ ops' = Append(ops, Op(cell.id, stmt, st, TRUE, FALSE))
                /\ exc' = "ModuleNotFoundError"
                /\ UNCHANGED <<icell, stmt, modules>>
    /\ UNCHANGED <<nb, importable>>

\* except ImportError: the %pip lines, which report a failure on the
\* output and raise nothing.
ExceptImportError ==
    /\ nb # "<none>"
    /\ icell = InstallCell(nb).id
    /\ exc # NoError
    /\ IsSubclass(exc, "ImportError")
    /\ LET cell == InstallCell(nb)
           body == cell.body[stmt].handler
       IN  \E ok \in BOOLEAN :
             /\ importable' = After(body, Len(body), importable, ok)
             /\ ops' = ops \o
                   [k \in DOMAIN body |->
                      Op(cell.id, stmt, body[k],
                         Fails(body, k, importable, ok), TRUE)]
             /\ modules' = modules \cup
                   UNION { body[k].pkgs : k \in
                             { j \in DOMAIN body :
                                 /\ body[j].op = "import"
                                 /\ ~Fails(body, j, importable, ok) } }
             /\ Advance(stmt, Len(cell.body), "imports")
    /\ exc' = NoError
    /\ UNCHANGED nb

\* The import statements of the later cells: one that fails ends the run.
LaterImport ==
    /\ icell = "imports"
    /\ LET imp == LaterImports(nb)[stmt]
           st == Statement("import", {imp.import})
       IN  IF imp.import \in importable
           THEN /\ modules' = modules \cup {imp.import}
                /\ ops' = Append(ops, Op(imp.cell, stmt, st, FALSE, FALSE))
                /\ Advance(stmt, Len(LaterImports(nb)), "done")
                /\ exc' = NoError
           ELSE /\ ops' = Append(ops, Op(imp.cell, stmt, st, TRUE, FALSE))
                /\ exc' = "ModuleNotFoundError"
                /\ icell' = "halted"
                /\ UNCHANGED <<stmt, modules>>
    /\ UNCHANGED <<nb, importable>>

NextInstall ==
    \/ OpenNotebook /\ UNCHANGED <<newsVars, quasiVars, meansVars, cellsVars, introVars, callVars, trainVars>>
    \/ TryImport /\ UNCHANGED <<newsVars, quasiVars, meansVars, cellsVars, introVars, callVars, trainVars>>
    \/ ExceptImportError /\ UNCHANGED <<newsVars, quasiVars, meansVars, cellsVars, introVars, callVars, trainVars>>
    \/ LaterImport /\ UNCHANGED <<newsVars, quasiVars, meansVars, cellsVars, introVars, callVars, trainVars>>

InitInstall ==
    InitNewsVars /\ InitQuasiVars /\ InitMeansVars /\ InitInstallVars
    /\ InitCellsVars /\ InitIntroVars /\ InitCallVars /\ InitTrainVars

SpecInstall == InitInstall /\ [][NextInstall]_vars

(***************************************************************************)
(*           The kernel running the code cells of one notebook             *)
(***************************************************************************)

\* The kernel handles one execute request at a time.
KernelIdle == running = {} /\ incall = 0

\* Run All: the front end queues one execute request per code cell, in
\* document order.
OpenBook ==
    /\ book = "<none>"
    /\ \E n \in NotebookNames :
          /\ book' = n
          /\ queue' = Cells(n)
    /\ UNCHANGED <<running, bound, fdefs, unbound_reads, started, workers,
                   incall, tasks>>

\* The kernel takes the next request.
StartCell ==
    /\ book # "<none>"
    /\ queue # << >>
    /\ KernelIdle
    /\ running' = running \cup
          {[cell |-> Head(queue), at |-> FirstStatement(book, Head(queue))]}
    /\ queue' = Tail(queue)
    /\ started' = Append(started, Head(queue))
    /\ UNCHANGED <<book, bound, fdefs, unbound_reads, workers, incall, tasks>>

\* The position of a cell after its statement k: the next statement, or
\* none when k was its last.
Advanced(r) ==
    LET sts == Statements(book)
    IN  IF r.at < Len(sts) /\ sts[r.at + 1].cell = r.cell
        THEN (running \ {r}) \cup {[r EXCEPT !.at = r.at + 1]}
        ELSE running \ {r}

\* What a statement leaves behind when it ends without an exception.
Bind(st) ==
    /\ bound' = bound \cup st.binds
    /\ fdefs' = {d \in fdefs : d.fn \notin st.binds} \cup st.defines

\* A cell runs its next statement.  A statement that raises inside a try,
\* or in a cell tagged raises-exception, binds nothing, and the run goes on.
RunStatement ==
    /\ incall = 0
    /\ \E r \in running :
          LET st == Statements(book)[r.at]
              rd == ReadsOf(st, fdefs)
          IN  /\ unbound_reads' = unbound_reads \cup
                    {[name |-> x, line |-> st.lines[1]] :
                        x \in rd \ (bound \cup Builtins)}
              /\ tasks' = IF st.spawns THEN tasks \cup {st.lines[1]} ELSE tasks
              /\ IF st.chains > 0
                 THEN /\ incall' = r.at
                      /\ workers' = 1..st.chains
                      /\ UNCHANGED <<running, bound, fdefs>>
                 ELSE /\ \/ Bind(st)
                         \/ st.may_raise /\ UNCHANGED <<bound, fdefs>>
                      /\ running' = Advanced(r)
                      /\ UNCHANGED <<incall, workers>>
    /\ UNCHANGED <<book, queue, started>>

\* Inside the library call: a chain finishes.
ChainDone ==
    /\ incall # 0
    /\ \E w \in workers : workers' = workers \ {w}
    /\ UNCHANGED <<book, queue, running, bound, fdefs, unbound_reads,
                   started, incall, tasks>>

\* The library call returns when all of its chains have finished.
LibraryReturn ==
    /\ incall # 0
    /\ workers = {}
    /\ \E r \in running :
          /\ r.at = incall
          /\ Bind(Statements(book)[r.at])
          /\ running' = Advanced(r)
    /\ incall' = 0
    /\ UNCHANGED <<book, queue, unbound_reads, started, workers, tasks>>

NextCells ==
    \/ OpenBook /\ UNCHANGED <<newsVars, quasiVars, meansVars, installVars, introVars, callVars, trainVars>>
    \/ StartCell /\ UNCHANGED <<newsVars, quasiVars, meansVars, installVars, introVars, callVars, trainVars>>
    \/ RunStatement /\ UNCHANGED <<newsVars, quasiVars, meansVars, installVars, introVars, callVars, trainVars>>
    \/ ChainDone /\ UNCHANGED <<newsVars, quasiVars, meansVars, installVars, introVars, callVars, trainVars>>
    \/ LibraryReturn /\ UNCHANGED <<newsVars, quasiVars, meansVars, installVars, introVars, callVars, trainVars>>

InitCells ==
    InitNewsVars /\ InitQuasiVars /\ InitMeansVars /\ InitInstallVars
    /\ InitCellsVars /\ InitIntroVars /\ InitCallVars /\ InitTrainVars

SpecCells == InitCells /\ [][NextCells]_vars

(***************************************************************************)
(*      The intro notebook: section Conditioning & marginalization         *)
(***************************************************************************)

\* 0.5 * kernels.ExpSquared(scale=1.0) (cell 5db9aad8)
ScaledExpSquared == [type |-> "ExpSquared", amp |-> Half, scale |-> Q]

\* Values of y = sin(X) + 1e-4 * noise, which lie between -1 and 1.
DataValues == {0 - Q, 0, Q}

\* The process tinygp's condition returns: the distribution at the inputs
\* given y, with a kernel and a mean of the library's Conditioned types.
Conditioned(g, y) ==
    [ kernel |-> [type |-> "Conditioned", kernel |-> g.kernel, X |-> g.X,
                  diag |-> g.diag],
      X |-> g.X,
      diag |-> "0",
      loc |-> [i \in DOMAIN g.X |-> 0],
      mean_function |-> [type |-> "Conditioned", kernel |-> g.kernel,
                         X |-> g.X, diag |-> g.diag, y |-> y] ]

\* GaussianProcess.condition(y): the named tuple (log_probability, gp).
GaussianProcess_condition(g, y) ==
    [ log_probability |-> log_probability(g, y),
      gp |-> Conditioned(g, y) ]

\* Cell 5db9aad8: the made-up dataset, the process and its log probability.
I_5db9aad8 ==
    /\ icond = "5db9aad8"
    /\ \E draws \in Arrays(NPoints, {k * Q : k \in TimeGrid}) :
          Xc' = np_sort(draws)
    /\ yc' \in Arrays(NPoints, DataValues)
    /\ gp_c' = GaussianProcessMean(ScaledExpSquared, Xc', "1e-4", ZeroMean)
    /\ printed' = Append(printed, log_probability(gp_c', yc'))
    /\ icond' = "f7a4ee73"
    /\ UNCHANGED cond

\* Mutant of I_f7a4ee73: the process is conditioned on other data than the
\* data whose log probability cell 5db9aad8 printed.
I_f7a4ee73_other_data ==
    /\ icond = "f7a4ee73"
    /\ cond' = GaussianProcess_condition(gp_c, [i \in DOMAIN yc |-> 0])
    /\ printed' = Append(printed, cond'.log_probability)
    /\ icond' = "c2d51731"
    /\ UNCHANGED <<Xc, yc, gp_c>>

\* Cell f7a4ee73: cond = gp.condition(y); print(cond.log_probability)
I_f7a4ee73 ==
    /\ icond = "f7a4ee73"
    /\ cond' = GaussianProcess_condition(gp_c, yc)
    /\ printed' = Append(printed, cond'.log_probability)
    /\ icond' = "c2d51731"
    /\ UNCHANGED <<Xc, yc, gp_c>>

NextIntro ==
    \/ I_5db9aad8
          /\ UNCHANGED <<newsVars, quasiVars, meansVars, installVars,
                         cellsVars, callVars, trainVars>>
    \/ I_f7a4ee73
          /\ UNCHANGED <<newsVars, quasiVars, meansVars, installVars,
                         cellsVars, callVars, trainVars>>

InitIntro ==
    InitNewsVars /\ InitQuasiVars /\ InitMeansVars /\ InitInstallVars
    /\ InitCellsVars /\ InitIntroVars /\ InitCallVars /\ InitTrainVars

SpecIntro == InitIntro /\ [][NextIntro]_vars

(***************************************************************************)
(*     Single calls of the notebooks' functions, on any arguments          *)
(***************************************************************************)

\* One kernel of each wrapper class, as the notebook builds them.
WrapperKernels ==
    { << Multiband(BaseKernel("Matern52", 15), Vec3(31, -11, 37)) >>,
      << Latent(BaseKernel("Matern52", 10), Vec2(1, 0), Vec2(0, 1)) >> }

\* What the quasiseparable solver makes of a process (its samples and
\* probabilities): the order of the points is not checked, and points that
\* are not sorted end in NaN values (markdown cell 6d4ff96f).
QuasisepSolve(g) ==
    [raised |-> NoError,
     values |-> IF NonDecreasing(g.sortable) THEN "finite" ELSE "NaN"]

\* GaussianProcess(kernel, X) on points in any order, as the cells build it.
Call_GaussianProcess ==
    /\ called = "<none>"
    /\ \E k \in WrapperKernels :
       \E times \in Arrays(NPoints, TimeGrid) :
       \E ids \in Arrays(NPoints, {0, 1}) :
          LET g == GaussianProcess(k, Vec2(times, ids), DefaultNoise)
          IN  /\ called' = "GaussianProcess"
              /\ given' = [kernel |-> k, X |-> Vec2(times, ids)]
              /\ returned' = [gp |-> g, solve |-> QuasisepSolve(g)]

\* Number of posterior draws of log_rate at one x (num_samples times
\* num_chains in the notebook).
NDraws == 4

\* The levels of cell af823999, [5, 25, 50, 75, 95], in hundredths of a
\* percent.
PercentileLevels == ToArray(<<500, 2500, 5000, 7500, 9500>>)

\* np.percentile(a, levels, axis=0) at one x: the default, linear, method.
\* For the level p the virtual index is (n - 1) * p / 100, and the value is
\* interpolated between the two sorted draws around it.  The values are
\* kept multiplied by 10000, so that they are whole numbers.
np_percentile(a, levels) ==
    LET sorted == np_sort(a)
        n == Size(a)
        at(p) ==
            LET h == (n - 1) * p
                lo == h \div 10000
                frac == h % 10000
            IN  IF lo + 1 <= n - 1
                THEN 10000 * sorted[lo] + frac * (sorted[lo + 1] - sorted[lo])
                ELSE 10000 * sorted[lo]
    IN  [i \in DOMAIN levels |-> at(levels[i])]

\* Cell af823999: q = np.percentile(samples["log_rate"], [5, 25, 50, 75, 95],
\* axis=0); the line is q[2], the bands are q[0]..q[-1] and q[1]..q[-2].
Call_percentile ==
    /\ called = "<none>"
    /\ \E draws \in Arrays(NDraws, LogGrid) :
          LET q == np_percentile(draws, PercentileLevels)
          IN  /\ called' = "np.percentile"
              /\ given' = [samples |-> draws, levels |-> PercentileLevels]
              /\ returned' =
                    [q |-> q, line |-> Item(q, 2),
                     outer |-> <<Item(q, 0), Item(q, -1)>>,
                     inner |-> <<Item(q, 1), Item(q, -2)>>]

\* The largest count of the data y = random.poisson(...).
MaxY == 2

\* Python's None, and a value that is not None.
None == [is_none |-> TRUE]
Some(v) == [is_none |-> FALSE, value |-> v]

\* numpyro.sample(name, fn, obs=obs): a sample site; it is observed, with
\* the value obs, when obs is not None, and latent otherwise.
numpyro_sample(name, fn, obs) ==
    [type |-> "sample", name |-> name, fn |-> fn,
     is_observed |-> ~obs.is_none, value |-> obs]

\* numpyro.param(name, init): a parameter site, never observed.
numpyro_param(name, init) ==
    [type |-> "param", name |-> name, fn |-> init,
     is_observed |-> FALSE, value |-> None]

\* Mutant of model_mcmc: the process is conditioned on the data, as in a
\* model with a Gaussian likelihood.
model_mcmc_gp_observed(x, y) ==
    << numpyro_sample("mean", "Normal(0.0, 2.0)", None),
       numpyro_sample("sigma", "HalfNormal(3.0)", None),
       numpyro_sample("rho", "HalfNormal(10.0)", None),
       numpyro_sample("log_rate", "gp.numpyro_dist()", y),
       numpyro_sample("obs", "Poisson(jnp.exp(log_rate))", y) >>

\* model(x, y=None) of cell d0b8f667 (MCMC): its sites, in order.
model_mcmc(x, y) ==
    << numpyro_sample("mean", "Normal(0.0, 2.0)", None),
       numpyro_sample("sigma", "HalfNormal(3.0)", None),
       numpyro_sample("rho", "HalfNormal(10.0)", None),
       numpyro_sample("log_rate", "gp.numpyro_dist()", None),
       numpyro_sample("obs", "Poisson(jnp.exp(log_rate))", y) >>

\* model(x, y=None) of cell eedc1154 (SVI): its sites, in order.
model_svi(x, y) ==
    << numpyro_param("mean", "jnp.zeros(())"),
       numpyro_param("sigma", "jnp.ones(())"),
       numpyro_param("rho", "2 * jnp.ones(())"),
       numpyro_sample("log_rate", "gp.numpyro_dist()", None),
       numpyro_sample("obs", "Poisson(jnp.exp(log_rate))", y) >>

\* The arguments inference calls model with: y is the data (mcmc.run,
\* svi.run) or None, the default.
ModelData == {None} \cup {Some(y) : y \in Arrays(NPoints, 0..MaxY)}

\* A floating-point result: a finite number, minus infinity or NaN.
Finite(v) == [kind |-> "finite", val |-> v]
MinusInf == [kind |-> "-inf", val |-> 0]
NaN == [kind |-> "nan", val |-> 0]

\* jnp.log, to the base of FExp: for a positive number the largest
\* logarithm whose exponential does not exceed it; log(0) is minus infinity
\* and the logarithm of a negative number is NaN.
jnp_log(a) ==
    LET range == (0 - (FracBits + 2) * Q)..a
    IN  IF a > 0
        THEN Finite(CHOOSE r \in range :
                       /\ FExp(r) <= a
                       /\ \A r2 \in range : FExp(r2) <= a => r2 <= r)
        ELSE IF a = 0 THEN MinusInf ELSE NaN

\* Mutant of guide: the parameter starts at log(y).
guide_log_y(x, y) ==
    << numpyro_param("log_rate_mu",
          IF y.is_none THEN [k \in DOMAIN x |-> Finite(0)]
          ELSE [k \in DOMAIN y.value |-> jnp_log(y.value[k] * Q)]),
       numpyro_param("log_rate_sigma", [k \in DOMAIN x |-> Finite(Q)]),
       numpyro_sample("log_rate", "Independent(Normal(mu, sigma), 1)", None) >>

\* Mutant of guide: the guide samples the site obs too.
guide_with_obs(x, y) ==
    << numpyro_param("log_rate_mu",
          IF y.is_none THEN [k \in DOMAIN x |-> Finite(0)]
          ELSE [k \in DOMAIN y.value |-> jnp_log((y.value[k] + 1) * Q)]),
       numpyro_param("log_rate_sigma", [k \in DOMAIN x |-> Finite(Q)]),
       numpyro_sample("log_rate", "Independent(Normal(mu, sigma), 1)", None),
       numpyro_sample("obs", "Poisson(jnp.exp(log_rate))", None) >>

\* guide(x, y=None) of cell eedc1154: its sites, in order.  log_rate_mu
\* starts at jnp.zeros_like(x) if y is None else jnp.log(y + 1), and
\* log_rate_sigma at jnp.ones_like(x).
guide(x, y) ==
    << numpyro_param("log_rate_mu",
          IF y.is_none THEN [k \in DOMAIN x |-> Finite(0)]
          ELSE [k \in DOMAIN y.value |-> jnp_log((y.value[k] + 1) * Q)]),
       numpyro_param("log_rate_sigma", [k \in DOMAIN x |-> Finite(Q)]),
       numpyro_sample("log_rate", "Independent(Normal(mu, sigma), 1)", None) >>

\* SVI(model, guide, ...).run(key, 3000, x, y=y), or with the default y:
\* every step runs the guide and the model on the same arguments, each
\* under a trace handler.
Call_svi ==
    /\ called = "<none>"
    /\ \E y \in ModelData :
          LET x == [i \in 0..(NPoints - 1) |-> i]
          IN  /\ called' = "svi"
              /\ given' = [x |-> x, y |-> y]
              /\ returned' = [model |-> model_svi(x, y), guide |-> guide(x, y)]

\* A run of model under a trace handler, which records its sites.
Call_model ==
    /\ called = "<none>"
    /\ \E version \in {"MCMC", "SVI"} :
       \E y \in ModelData :
          LET x == [i \in 0..(NPoints - 1) |-> i]
          IN  /\ called' = "model"
              /\ given' = [version |-> version, x |-> x, y |-> y]
              /\ returned' = IF version = "MCMC" THEN model_mcmc(x, y)
                             ELSE model_svi(x, y)

\* noise = 0.1 of the deep-kernel notebook, squared: a positive constant,
\* kept as the smallest positive number.
NoiseSquared == 1

\* GPLoss.__call__(x, y, t) with the parameters prm: the process it builds
\* on x, with the data y and the test inputs t (t_test here).  The Transformer network is library code applied to the
\* inputs; its parameters are carried along.
GPLoss(prm, x, y, t_test) ==
    LET base_kernel ==
            [type |-> "Matern32", amp |-> FExp(2 * prm.log_sigma),
             scale |-> FExp(prm.log_rho)]
        k == [type |-> "Transform", transform |-> prm.net,
              kernel |-> base_kernel]
    IN  [ kernel |-> k, X |-> x, y |-> y, X_test |-> t_test,
          diag |-> NoiseSquared + FExp(2 * prm.log_jitter) ]

\* The values the optimizer may give an unconstrained parameter.
MaxParam == 5
Unconstrained == {d * Q : d \in (0 - MaxParam)..MaxParam}

\* An argument passed to a kernel or to GaussianProcess: its name, the
\* number exp was applied to, and its value.
Passed(name, arg, value) == [name |-> name, arg |-> arg, value |-> value]

\* The scales, amplitudes and diagonal noise terms the process built by
\* build_gp (means, Latent, SHO) or by GPLoss was given, for the three
\* logarithmic parameters a, b and c.
build_gp_passes(which, a, b, c) ==
    CASE which = "means" ->
            LET g == build_gp([log_gp_amp |-> a, log_gp_scale |-> b,
                               log_gp_diag |-> c,
                               amps |-> mean_params.amps,
                               loc |-> mean_params.loc,
                               log_width |-> mean_params.log_width],
                              ToArray(<<0, Q>>))
            IN  { Passed("amp", a, g.kernel.amp),
                  Passed("scale", b, g.kernel.scale),
                  Passed("diag", c, g.diag) }
      [] which = "Latent" ->
            LET g == build_gp_latent(
                        [init_latent EXCEPT !.log_scale = a,
                            !.log_period = b, !.log_diag = c],
                        Vec2(ToArray(<<0, 1>>), ToArray(<<0, 1>>)))
            IN  { Passed("scale", a, g.kernel[1].kernel.factors[1].scale),
                  Passed("period", b, g.kernel[1].kernel.factors[2].scale),
                  Passed("diag", c, g.noise.diag) }
      [] which = "SHO" ->
            LET g == build_gp_sho([log_sigma |-> a, log_quality |-> b,
                                   log_omega |-> c],
                                  ToArray(<<0, 1>>), DefaultNoise)
            IN  { Passed("sigma", a, g.kernel[1].sigma),
                  Passed("quality", b, g.kernel[1].quality),
                  Passed("omega", c, g.kernel[1].scale) }
      [] which = "GPLoss" ->
            LET g == GPLoss([log_sigma |-> a, log_rho |-> b,
                             log_jitter |-> c, net |-> "Transformer"],
                            ToArray(<<0, 1>>), ToArray(<<0, 1>>),
                            ToArray(<<0, 1>>))
            IN  { Passed("amp", 2 * a, g.kernel.kernel.amp),
                  Passed("scale", b, g.kernel.kernel.scale),
                  Passed("diag", 2 * c, g.diag) }

\* build_gp(params), or GPLoss applied to params, at any value of the
\* logarithmic parameters.
Call_build_gp ==
    /\ called = "<none>"
    /\ \E which \in {"means", "Latent", "SHO", "GPLoss"} :
       \E a \in Unconstrained : \E b \in Unconstrained :
       \E c \in Unconstrained :
          /\ called' = "build_gp"
          /\ given' = [which |-> which, params |-> <<a, b, c>>]
          /\ returned' = build_gp_passes(which, a, b, c)

NextCalls ==
    \/ Call_svi
          /\ UNCHANGED <<newsVars, quasiVars, meansVars, installVars,
                         cellsVars, introVars, trainVars>>
    \/ Call_build_gp
          /\ UNCHANGED <<newsVars, quasiVars, meansVars, installVars,
                         cellsVars, introVars, trainVars>>
    \/ Call_GaussianProcess
          /\ UNCHANGED <<newsVars, quasiVars, meansVars, installVars,
                         cellsVars, introVars, trainVars>>
    \/ Call_percentile
          /\ UNCHANGED <<newsVars, quasiVars, meansVars, installVars,
                         cellsVars, introVars, trainVars>>
    \/ Call_model
          /\ UNCHANGED <<newsVars, quasiVars, meansVars, installVars,
                         cellsVars, introVars, trainVars>>

InitCalls ==
    InitNewsVars /\ InitQuasiVars /\ InitMeansVars /\ InitInstallVars
    /\ InitCellsVars /\ InitIntroVars /\ InitCallVars /\ InitTrainVars

SpecCalls == InitCalls /\ [][NextCalls]_vars

(***************************************************************************)
(*        The deep-kernel notebook (transforms): the training loop         *)
(***************************************************************************)

\* Number of data points (100 in the notebook) and of iterations of the
\* training loop (range(1000) in the notebook).
NTrain == 2
NSteps == 3

\* Cell 71dd3917: x = np.sort(uniform(-1, 1)), y = 2 * (x > 0) - 1 + noise,
\* and the test inputs t = np.linspace(-1.5, 1.5, ...).
T_71dd3917 ==
    /\ lpc = "71dd3917"
    /\ \E draws \in Arrays(NTrain, {0 - Q, 0, Q}) :
          x_data' = np_sort(draws)
    /\ \E eps \in Arrays(NTrain, {-1, 0, 1}) :
          y_data' = [k \in DOMAIN x_data' |->
                       2 * Q * (IF x_data'[k] > 0 THEN 1 ELSE 0) - Q + eps[k]]
    /\ t_grid' = ToArray(<<0 - (3 * Q) \div 2, 0, (3 * Q) \div 2>>)
    /\ lpc' = "e0065dea"
    /\ UNCHANGED <<net_params, opt_state, iter, i_loop, loss_value, grads,
                   updates>>

\* Cell e0065dea up to the loop: model.init gives the three logarithmic
\* parameters the value zero; optax.sgd keeps no state between the steps,
\* so the states are told apart by the step i that made them (made_by, -1
\* before the loop), and so are the parameters.
T_e0065dea ==
    /\ lpc = "e0065dea"
    /\ net_params' = [made_by |-> -1, log_sigma |-> 0, log_rho |-> 0,
                      log_jitter |-> 0, net |-> "Transformer"]
    /\ opt_state' = [made_by |-> -1]
    /\ lpc' = "for"
    /\ UNCHANGED <<x_data, y_data, t_grid, iter, i_loop, loss_value, grads,
                   updates>>

\* for i in range(NSteps): the next value of i, or the end of the loop.
T_for ==
    /\ lpc = "for"
    /\ IF iter < NSteps
       THEN /\ i_loop' = iter
            /\ iter' = iter + 1
            /\ lpc' = "loss_grad_fn"
       ELSE /\ lpc' = "plot"
            /\ UNCHANGED <<i_loop, iter>>
    /\ UNCHANGED <<x_data, y_data, t_grid, net_params, opt_state, loss_value,
                   grads, updates>>

\* The gradients jax.value_and_grad may return for a logarithmic parameter,
\* in units of 1 / learning_rate.
Gradients == {-1, 1}

\* loss_val, grads = loss_grad_fn(params): loss applies the model to params
\* and to the global x, y and t.
T_loss_grad_fn ==
    /\ lpc = "loss_grad_fn"
    /\ loss_value' = [at |-> net_params.made_by,
                      of |-> GPLoss(net_params, x_data, y_data, t_grid)]
    /\ \E g \in Gradients :
          grads' = [at |-> net_params.made_by, log_sigma |-> g,
                    log_rho |-> 0 - g, log_jitter |-> g]
    /\ lpc' = "tx.update"
    /\ UNCHANGED <<x_data, y_data, t_grid, net_params, opt_state, iter, i_loop,
                   updates>>

\* updates, opt_state = tx.update(grads, opt_state): sgd scales the
\* gradients by -learning_rate.
T_tx_update ==
    /\ lpc = "tx.update"
    /\ updates' = [grads_at |-> grads.at, state |-> opt_state.made_by,
                   log_sigma |-> 0 - grads.log_sigma,
                   log_rho |-> 0 - grads.log_rho,
                   log_jitter |-> 0 - grads.log_jitter]
    /\ opt_state' = [made_by |-> i_loop]
    /\ lpc' = "apply_updates"
    /\ UNCHANGED <<x_data, y_data, t_grid, net_params, iter, i_loop,
                   loss_value, grads>>

\* Mutant of T_apply_updates: the result is not assigned to params.
T_apply_updates_discarded ==
    /\ lpc = "apply_updates"
    /\ lpc' = "for"
    /\ UNCHANGED <<x_data, y_data, t_grid, net_params, opt_state, iter, i_loop,
                   loss_value, grads, updates>>

\* params = optax.apply_updates(params, updates)
T_apply_updates ==
    /\ lpc = "apply_updates"
    /\ net_params' = [net_params EXCEPT
                         !.made_by = i_loop,
                         !.log_sigma = @ + updates.log_sigma,
                         !.log_rho = @ + updates.log_rho,
                         !.log_jitter = @ + updates.log_jitter]
    /\ lpc' = "for"
    /\ UNCHANGED <<x_data, y_data, t_grid, opt_state, iter, i_loop,
                   loss_value, grads, updates>>

\* After the loop: mu, var = model.apply(params, x, y, t)[1] and the plot.
T_plot ==
    /\ lpc = "plot"
    /\ loss_value' = [at |-> net_params.made_by,
                      of |-> GPLoss(net_params, x_data, y_data, t_grid)]
    /\ lpc' = "done"
    /\ UNCHANGED <<x_data, y_data, t_grid, net_params, opt_state, iter, i_loop,
                   grads, updates>>

NextTrain ==
    \/ T_71dd3917
          /\ UNCHANGED <<newsVars, quasiVars, meansVars, installVars,
                         cellsVars, introVars, callVars>>
    \/ T_e0065dea
          /\ UNCHANGED <<newsVars, quasiVars, meansVars, installVars,
                         cellsVars, introVars, callVars>>
    \/ T_for
          /\ UNCHANGED <<newsVars, quasiVars, meansVars, installVars,
                         cellsVars, introVars, callVars>>
    \/ T_loss_grad_fn
          /\ UNCHANGED <<newsVars, quasiVars, meansVars, installVars,
                         cellsVars, introVars, callVars>>
    \/ T_tx_update
          /\ UNCHANGED <<newsVars, quasiVars, meansVars, installVars,
                         cellsVars, introVars, callVars>>
    \/ T_apply_updates
          /\ UNCHANGED <<newsVars, quasiVars, meansVars, installVars,
                         cellsVars, introVars, callVars>>
    \/ T_plot
          /\ UNCHANGED <<newsVars, quasiVars, meansVars, installVars,
                         cellsVars, introVars, callVars>>

InitTrain ==
    InitNewsVars /\ InitQuasiVars /\ InitMeansVars /\ InitInstallVars
    /\ InitCellsVars /\ InitIntroVars /\ InitCallVars /\ InitTrainVars

SpecTrain == InitTrain /\ [][NextTrain]_vars

(***************************************************************************)
(*                 Claims on quasisep-custom.ipynb                         *)
(***************************************************************************)

\* C5: with one Multiband term per row of L and R = L L^T, the cross-band
\* covariance implied by the sum, the sum over the terms n of
\* amplitudes_n[a] * amplitudes_n[b], equals R[a][b] for all bands a, b.
C5_KroneckerReproducesR ==
    qpc = "feb08b7b" =>
       \A a \in Bands : \A b \in Bands :
          kernel[1].amplitudes[a] * kernel[1].amplitudes[b]
          + kernel[2].amplitudes[a] * kernel[2].amplitudes[b]
          + kernel[3].amplitudes[a] * kernel[3].amplitudes[b] = R[a][b]

\* C6: Multiband.observation_model((t, band)) is amplitudes[band] times the
\* wrapped kernel's observation_model(t), for every point and every term of
\* the kernel; two points of the same band at the same time get the same
\* observation model.
C6_MultibandObservation ==
    qpc \in {"1bc01726", "14f3ff8b", "feb08b7b"} =>
       /\ \A i \in DOMAIN t : \A n \in 1..Len(kernel) :
             gps[1].obs[i][n] =
                [c \in 0..1 |->
                   kernel[n].amplitudes[band_id[i]]
                   * ObservationModel(kernel[n].kernel, t[i])[c]]
       /\ \A i \in DOMAIN t : \A k \in DOMAIN t :
             (t[i] = t[k] /\ band_id[i] = band_id[k]) => gps[1].obs[i] = gps[1].obs[k]

\* Two points at the same time in different bands, observed differently.
C6_Witness ==
    /\ qpc = "1bc01726"
    /\ \E i \in DOMAIN t : \E k \in DOMAIN t :
          /\ t[i] = t[k]
          /\ band_id[i] # band_id[k]
          /\ gps[1].obs[i] # gps[1].obs[k]

\* The matrix a tinygp.noise.Banded stands for: symmetric, with the diagonal
\* diag and the entry (i, i + j + 1) in off_diags[i, j]; zero outside the band.
NoiseEntry(nm, i, k) ==
    IF i = k THEN nm.diag[i]
    ELSE LET lo == IF i < k THEN i ELSE k
             hi == IF i < k THEN k ELSE i
         IN  IF hi - lo - 1 \in DOMAIN nm.off_diags[lo]
             THEN nm.off_diags[lo][hi - lo - 1]
             ELSE 0

BandBuilt == qpc \in {"8d7bc50a", "done"}

LargestGroup ==
    CHOOSE n \in 0..nt :
       /\ \E c \in 0..(tmax * Ticks) :
             Cardinality({i \in 0..(nt - 1) : calib_id[i] = c}) = n
       /\ \A c \in 0..(tmax * Ticks) :
             Cardinality({i \in 0..(nt - 1) : calib_id[i] = c}) <= n

\* The part of C4 on the off-diagonal entries and on the bandwidth.
OffDiagonalBlocks ==
    /\ NonDecreasing(calib_id)
    /\ \A i \in 0..(nt - 1) : \A k \in 0..(nt - 1) :
          i < k =>
             /\ NoiseEntry(noise_model, i, k) =
                   IF calib_id[i] = calib_id[k]
                   THEN FSquare(caliberr[calib_id[i]]) ELSE 0
             /\ NoiseEntry(noise_model, k, i) = NoiseEntry(noise_model, i, k)
             /\ (k - i - 1 < bandwidth) =>
                   off_diags[i][k - i - 1] = NoiseEntry(noise_model, i, k)
             /\ calib_id[i] = calib_id[k] => k - i - 1 < bandwidth
    /\ bandwidth = LargestGroup - 1

Abs(x) == IF x < 0 THEN 0 - x ELSE x

\* C4, as stated: the noise model is the symmetric block-diagonal matrix of
\* the calibration groups, entry (i, k) being caliberr[calib_id[i]]**2 inside
\* a group and zero outside, the diagonal entry i being exactly
\* yerr_meas[i]**2 + caliberr[calib_id[i]]**2, and bandwidth = largest group
\* size - 1 leaves no pair of a group outside the band.
C4_BlockDiagonalExact ==
    BandBuilt =>
       /\ OffDiagonalBlocks
       /\ \A i \in 0..(nt - 1) :
             noise_model.diag[i] =
                FSquare(yerr_meas[i]) + FSquare(caliberr[calib_id[i]])

\* C4, amended: as above, the diagonal entry i being yerr[i]**2 with
\* yerr[i] = sqrt(yerr_meas[i]**2 + caliberr[calib_id[i]]**2), which is
\* within rounding (3 units of the last place kept) of the sum of squares.
C4_BlockDiagonalRounded ==
    BandBuilt =>
       /\ OffDiagonalBlocks
       /\ \A i \in 0..(nt - 1) :
             LET sum == FSquare(yerr_meas[i]) + FSquare(caliberr[calib_id[i]])
             IN  /\ yerr[i] = FSqrt(sum)
                 /\ noise_model.diag[i] = FSquare(yerr[i])
                 /\ Abs(noise_model.diag[i] - sum) <= 3

\* A band matrix with two off-diagonals: a group of three points, a pair
\* of points of different groups inside the band, and a diagonal entry
\* that differs from the sum of squares.
C4_Witness ==
    /\ BandBuilt
    /\ bandwidth = 2
    /\ \E i \in 0..(nt - 1) : \E k \in 0..(nt - 1) :
          i < k /\ k - i - 1 < bandwidth /\ calib_id[i] # calib_id[k]
    /\ \E i \in 0..(nt - 1) :
          noise_model.diag[i] #
             FSquare(yerr_meas[i]) + FSquare(caliberr[calib_id[i]])

\* C7: every GaussianProcess of the notebook is built, and conditioned, on
\* inputs whose coord_to_sortable values (the time component) are
\* non-decreasing; X_obs, selected from the sorted X by a mask, is sorted.
C7_InputsSorted ==
    /\ \A n \in 1..Len(gps) :
          /\ NonDecreasing(gps[n].sortable)
          /\ NonDecreasing(gps[n].test)
    /\ qpc \in {"eabd5827", "63befc5b", "4cc33cac", "f0669f55", "8bd8f1c1"} =>
          /\ NonDecreasing(X_obs[0])
          /\ NonDecreasing(X[0])
    /\ qpc \in {"f0669f55", "8bd8f1c1"} =>
          \A n \in 1..Len(gps) : gps[n].sortable = X_obs[0]
    /\ qpc = "8bd8f1c1" => gps[1].test = X[0]
    /\ qpc = "done" =>
          /\ \A n \in 1..Len(gps) : gps[n].sortable = t
          /\ gps[3].test = tsmooth

\* The process fitted to X_obs, a proper subset of two or more of the
\* points of X at different times, conditioned on X.
C7_Witness ==
    /\ qpc = "8bd8f1c1"
    /\ Size(X_obs[0]) >= 2
    /\ Size(X_obs[0]) < Size(X[0])
    /\ X_obs[0][0] < X_obs[0][1]
    /\ gps[1].sortable = X_obs[0]

\* The input the processes of gps were built on: X_obs for build_gp, the
\* full X for the other cells of the Latent section.
LatentInput == IF qpc \in {"f0669f55", "8bd8f1c1"} THEN X_obs ELSE X

LatentCells == {"eabd5827", "63befc5b", "4cc33cac", "f0669f55", "8bd8f1c1"}

\* C14: Latent.observation_model((t, label)) is coeff_prim[label] * h(t)
\* - coeff_deriv[label] * (h(t) @ F), with h the wrapped kernel's
\* observation_model(t) and F its design_matrix(); in the processes of
\* plot_latent_samples (coeff_prim = [1, 0], coeff_deriv = [0, 1], kept in
\* hundredths) a point with label 0 observes h(t) and nothing else, and a
\* point with label 1 observes -(h(t) @ F), with no part of h(t) itself.
C14_LatentObservation ==
    qpc \in LatentCells =>
       \A n \in DOMAIN gps :
          LET k == gps[n].kernel[1]
              h(i) == ObservationModel(k.kernel, LatentInput[0][i])
              F == DesignMatrix(k.kernel)
              lab(i) == LatentInput[1][i]
          IN  /\ k.type = "Latent"
              /\ DOMAIN gps[n].obs = DOMAIN LatentInput[0]
              /\ \A i \in DOMAIN gps[n].obs :
                    gps[n].obs[i][1] =
                       VecSub(Scale(k.coeff_prim[lab(i)], h(i)),
                              Scale(k.coeff_deriv[lab(i)], VecMat(h(i), F)))
              /\ qpc \in {"63befc5b", "4cc33cac"} =>
                    \A i \in DOMAIN gps[n].obs :
                       /\ lab(i) = 0 => gps[n].obs[i][1] = Scale(100, h(i))
                       /\ lab(i) = 1 =>
                             gps[n].obs[i][1] = Scale(-100, VecMat(h(i), F))

\* plot_latent_samples has run on a dataset with both labels, at two
\* different times.
C14_Witness ==
    /\ qpc = "4cc33cac"
    /\ Len(gps) = 2
    /\ \E i, j \in DOMAIN label :
          label[i] = 0 /\ label[j] = 1 /\ t[i] # t[j]

\* A call reads data that are bound, that were bound in the section the
\* call is made in, one dataset, and whose arrays have the same length.
ConsistentCall(c) ==
    /\ DOMAIN c.reads # {}
    /\ \A n \in DOMAIN c.reads :
          /\ c.reads[n].line # 0
          /\ c.reads[n].line < c.line
          /\ SectionOf(c.reads[n].line) = SectionOf(c.line)
          /\ c.reads[n].shape # <<-1>>
    /\ \A n, m \in DOMAIN c.reads :
          c.reads[n].shape # << >> /\ c.reads[m].shape # << >>
             => c.reads[n].shape = c.reads[m].shape

\* The names the functions of the notebook read at their calls.
CallsReadTheirData ==
    \A i \in DOMAIN calls :
       /\ ConsistentCall(calls[i])
       /\ calls[i].fn = "plot_multiband_sample" =>
             DOMAIN calls[i].reads = {"X", "t", "band_id"}
       /\ calls[i].fn = "plot_latent_samples" =>
             DOMAIN calls[i].reads = {"X", "t", "label", "offset"}
       /\ calls[i].fn = "loss" =>
             DOMAIN calls[i].reads \in
                {{"X_obs", "y_obs"}, {"t", "y", "noise_model"}}
       /\ calls[i].fn = "build_gp" =>
             DOMAIN calls[i].reads \in {{"X_obs"}, {"t", "noise_model"}}

\* C19 as stated: every call of a function that reads module-level data is
\* made while the names it reads are bound to one dataset, with equal
\* lengths, and t, X and y are rebound by each of the three sections.
C19_ConsistentBindingsThreeTimes ==
    /\ CallsReadTheirData
    /\ qpc = "done" =>
          /\ data["t"].sections = {1, 2, 3}
          /\ data["X"].sections = {1, 2, 3}
          /\ data["y"].sections = {1, 2, 3}

\* C19, amended: every call of a function that reads module-level data is
\* made while the names it reads are bound to one dataset, that of the
\* section of the call, with equal lengths; t is rebound by each of the
\* three sections, X by the first two only and y by the last two only.
C19_ConsistentBindings ==
    /\ CallsReadTheirData
    /\ qpc = "done" =>
          /\ data["t"].sections = {1, 2, 3}
          /\ data["X"].sections = {1, 2}
          /\ data["y"].sections = {2, 3}
          /\ data["X"].line < data["t"].line

\* The third section has called loss and build_gp on its own t, y and
\* noise_model, of two points or more, while X still is the second
\* section's.
C19_Witness ==
    /\ qpc = "done"
    /\ Len(calls) = 3
    /\ calls[1].fn = "loss"
    /\ calls[1].reads["y"].shape = calls[1].reads["t"].shape
    /\ calls[1].reads["t"].shape[1] >= 2
    /\ SectionOf(data["X"].line) = 2

\* The cells after which caliberr is bound.
CalibCells == {"bd0488cb", "fdf98c4c", "8d7bc50a", "done"}

\* C21: every lookup by an array of integers is in range: band_id has
\* values in {0, 1, 2} and indexes amplitudes of length 3, the rows of L
\* included; label has values in {0, 1} and indexes coeff_prim and
\* coeff_deriv of length 2; every calib_id[i] is in 0..calib_id[-1] and
\* indexes caliberr, of length calib_id[-1] + 1, in the cell of the dataset
\* and in the loop over the off-diagonals.  The only IndexError a run can end
\* with is calib_id[-1] on an empty dataset, which nt = 100 excludes.
C21_LookupsInRange ==
    /\ qpc \in {"1bc01726", "14f3ff8b", "feb08b7b"} =>
          /\ \A i \in DOMAIN band_id : band_id[i] \in {0, 1, 2}
          /\ \A n \in 1..Len(kernel) :
                /\ Size(kernel[n].amplitudes) = 3
                /\ \A i \in DOMAIN band_id :
                      InRange(kernel[n].amplitudes, X[1][i])
          /\ qpc = "feb08b7b" =>
                \A n \in 1..3 : kernel[n].amplitudes = L[n - 1]
    /\ qpc \in LatentCells =>
          /\ \A i \in DOMAIN label : label[i] \in {0, 1}
          /\ \A k \in 1..Len(gps) :
                /\ Size(gps[k].kernel[1].coeff_prim) = 2
                /\ Size(gps[k].kernel[1].coeff_deriv) = 2
                /\ \A i \in DOMAIN LatentInput[1] :
                      /\ InRange(gps[k].kernel[1].coeff_prim, LatentInput[1][i])
                      /\ InRange(gps[k].kernel[1].coeff_deriv, LatentInput[1][i])
    /\ qpc \in CalibCells =>
          /\ NonDecreasing(t)
          /\ \A i \in DOMAIN t : t[i] >= 0
          /\ Size(caliberr) = Item(calib_id, -1) + 1
          /\ \A i \in DOMAIN calib_id :
                /\ calib_id[i] \in 0..Item(calib_id, -1)
                /\ InRange(caliberr, calib_id[i])
    /\ qpc \in {"8d7bc50a", "done"} =>
          \A j \in 0..(bandwidth - 1) :
             /\ nt - j - 1 >= 1
             /\ \A i \in 0..(nt - j - 2) :
                   /\ i + j + 1 \in DOMAIN calib_id
                   /\ InRange(caliberr, calib_id[i])
                   /\ InRange(off_diags[i], j)
    /\ qpc = "IndexError" => nt = 0

\* The loop over the off-diagonals has run on a dataset of several
\* calibration groups, the last of which indexes the last calibration error.
C21_Witness ==
    /\ qpc = "8d7bc50a"
    /\ bandwidth >= 1
    /\ Item(calib_id, -1) >= 2
    /\ calib_id[0] < Item(calib_id, -1)
    /\ Size(caliberr) = Item(calib_id, -1) + 1

\* C26: for every nt in 0..MaxNt the two groups of times, of nt // 2 and
\* (nt + 1) // 2 points, have nt points together, none of them shared; t and
\* yerr_meas have nt elements each, and so have yerr_calib and yerr, the
\* diagonal of the noise model and the rows of off_diags once the cells that
\* bind them have run.
C26_SameLength ==
    /\ \A n \in 0..MaxNt : GroupSizes(n)[1] + GroupSizes(n)[2] = n
    /\ qpc \in CalibCells \cup {"IndexError"} =>
          /\ nt \in 0..MaxNt
          /\ Size(t) = nt
          /\ Size(yerr_meas) = nt
          /\ Size(calib_id) = nt
          /\ Cardinality({i \in DOMAIN t : t[i] \in Group1}) = nt \div 2
          /\ Cardinality({i \in DOMAIN t : t[i] \in Group2}) = (nt + 1) \div 2
    /\ qpc \in CalibCells => Size(yerr_calib) = nt
    /\ qpc \in CalibCells \ {"bd0488cb"} => Size(yerr) = nt
    /\ qpc \in {"8d7bc50a", "done"} =>
          /\ Size(noise_model.diag) = nt
          /\ Size(noise_model.off_diags) = nt
          /\ Size(off_diags) = nt
          /\ \A i \in DOMAIN off_diags : Size(off_diags[i]) = bandwidth

\* The noise model was built on a dataset with an odd number of points, whose
\* two groups differ in size.
C26_Witness ==
    /\ qpc \in {"8d7bc50a", "done"}
    /\ nt % 2 = 1
    /\ nt >= 3
    /\ GroupSizes(nt)[1] < GroupSizes(nt)[2]
    /\ bandwidth >= 1
    /\ Size(noise_model.diag) = Size(t)

(***************************************************************************)
(*                 Claims on the mean-function notebook                    *)
(***************************************************************************)

\* C8: mean_function(params, X) called directly on a vector X of more than
\* one coordinate ends in an error instead of a value; through jax.vmap on
\* the same vector it succeeds and returns exactly one value per coordinate.
C8_DirectCallFails ==
    /\ mcell = "47be709b" =>
          (Size(X_grid) > 1 => raised = "TypeError")
    /\ mcell \in {"74c2d678", "47be709b", "e6f39d09"} =>
          /\ model.ndim = 1
          /\ DOMAIN model.val = DOMAIN X_grid
    /\ mcell \in {"74c2d678", "e6f39d09"} => raised = NoError

\* The direct call on X_grid has just failed, and `model` still holds the
\* values jax.vmap returned for the same X_grid, one per coordinate.
C8_Witness ==
    /\ mcell = "47be709b"
    /\ raised = "TypeError"
    /\ Size(X_grid) = MaxGrid
    /\ model.ndim = 1
    /\ Size(model.val) = MaxGrid

\* C9: for every parameter set, loss_v2(params) (no mean, the mean function
\* subtracted from y by hand) equals loss(params) (mean=partial(...)).
C9_LossesAgree ==
    mcell = "done" => loss_v2_val = loss_val

\* Both losses evaluated at parameters other than the notebook's, with a
\* mean that is not zero at the data.
C9_Witness ==
    /\ mcell = "done"
    /\ params.amps # mean_params.amps
    /\ params.loc # mean_params.loc
    /\ \E i \in DOMAIN Xm : vmapped_mean_function(params, Xm).val[i] # 0
    /\ \E i \in DOMAIN Xm : loss_val.neg.resid[i] # ym[i]

\* C15: for a scalar x, mean_function(params, x) is amps[0] + amps[1] *
\* exp(-(x - loc)^2 / (2 w^2)) with w = exp(log_width): amps[0] is the zero
\* point b and amps[1] the amplitude a of the documented f(x).  The code
\* evaluates the exponent as -0.5 * ((x - loc) / w)^2, which is the
\* documented one to within the rounding of the last place.  The value
\* is the same for every other setting of the log_gp_* keys of params.
\* (Checked where cell 1a08e708 has stacked params; no later cell rebinds
\* params or X.)
C15_MeanFunctionFormula ==
    mcell = "ca431a00" =>
       \A i \in DOMAIN Xm :
          LET x == Xm[i]
              w == FExp(params.log_width)
              g == FExp(FMul(0 - Half, FSquare(FDiv(x - params.loc, w))))
              documented ==
                  FExp(FDiv(0 - FSquare(x - params.loc), 2 * FSquare(w)))
              v == mean_function(params, Scalar(x))
          IN  /\ v.ndim = 0
              /\ v.val = params.amps[0] + FMul(params.amps[1], g)
              /\ g - documented \in {-1, 0, 1}
              /\ \A p \in ParamSets :
                    /\ p.amps = params.amps
                    /\ p.loc = params.loc
                    /\ p.log_width = params.log_width
                    => mean_function(p, Scalar(x)) = v

\* mean_function has been evaluated away from the peak of the bump, with a
\* zero point and an amplitude that differ, on stacked parameters.
C15_Witness ==
    /\ mcell = "ca431a00"
    /\ params.amps[0] # params.amps[1]
    /\ params.amps[0] # 0
    /\ "log_gp_amp" \in DOMAIN params
    /\ \E i \in DOMAIN Xm :
          /\ Xm[i] # params.loc
          /\ mean_function(params, Scalar(Xm[i])).val
                # params.amps[0] + params.amps[1]

(***************************************************************************)
(*                 Claims on the notebooks' error handling                 *)
(***************************************************************************)

SameOperation(a, b) == a.op = b.op /\ a.pkgs = b.pkgs

\* C10 as stated: no operation of a notebook runs inside a branch taken only
\* after an error, and no operation is attempted again after it failed.
C10_NoErrorHandling ==
    \A i \in DOMAIN ops :
       /\ ~ops[i].handler
       /\ \A j \in 1..(i - 1) : ~(ops[j].failed /\ SameOperation(ops[j], ops[i]))

\* C10, amended: the only operations that run after an error are the %pip
\* lines of the install cell, run when the import of the same try statement
\* raised ImportError; and no cell attempts an operation again after it
\* failed in that cell (a failed import is repeated only by the import
\* statement of a later cell).
C10_OnlyInstallHandlers ==
    \A i \in DOMAIN ops :
       /\ ops[i].handler =>
             /\ ops[i].cell = InstallCell(nb).id
             /\ ops[i].op \in {"pip install", "pip uninstall"}
             /\ \E j \in 1..(i - 1) :
                   /\ ops[j].op = "import"
                   /\ ops[j].failed
                   /\ ~ops[j].handler
                   /\ ops[j].cell = ops[i].cell
                   /\ ops[j].stmt = ops[i].stmt
       /\ \A j \in 1..(i - 1) :
             ops[j].failed /\ SameOperation(ops[j], ops[i])
                => ops[j].cell # ops[i].cell

\* An import failed in the install cell, its handler installed the package,
\* and a later cell imported it.
C10_Witness ==
    \E i, j, k \in DOMAIN ops :
       /\ i < j /\ j < k
       /\ ops[i].op = "import" /\ ops[i].failed
       /\ ops[j].handler /\ ops[j].op = "pip install" /\ ~ops[j].failed
       /\ ops[j].stmt = ops[i].stmt /\ ops[j].cell = ops[i].cell
       /\ ops[k].op = "import" /\ ~ops[k].failed
       /\ ops[k].pkgs = ops[i].pkgs
       /\ ops[k].cell # ops[i].cell

\* The try statements of the install cell the run has left behind.
PassedTries ==
    IF icell = InstallCell(nb).id THEN 1..(stmt - 1)
    ELSE DOMAIN InstallCell(nb).body

\* The positions in ops of the import of try statement k of the install cell,
\* and of the %pip install lines of its handler that name the same package.
TriedImports(k) ==
    { i \in DOMAIN ops :
        /\ ops[i].cell = InstallCell(nb).id /\ ops[i].stmt = k
        /\ ops[i].op = "import" /\ ~ops[i].handler }

HandlerInstalls(k) ==
    { i \in DOMAIN ops :
        /\ ops[i].cell = InstallCell(nb).id /\ ops[i].stmt = k
        /\ ops[i].op = "pip install" /\ ops[i].handler
        /\ InstallCell(nb).body[k].import \in ops[i].pkgs }

\* C25: in every install cell the %pip install line of a dependency runs if
\* and only if the import of that dependency raised ImportError; every
\* dependency of the cell is checked, once, whatever the checks before it
\* gave; and in the likelihoods notebook a failed import of numpyro runs the
\* uninstall of jax and jaxlib immediately before the install of numpyro, jax
\* and jaxlib, and no uninstall ever follows an install of jax.
C25_InstallIffImportError ==
    nb # "<none>" =>
       /\ \A k \in DOMAIN InstallCell(nb).body :
             /\ k \in PassedTries =>
                   /\ Cardinality(TriedImports(k)) = 1
                   /\ HandlerInstalls(k) # {}
                         <=> \E i \in TriedImports(k) : ops[i].failed
             /\ Cardinality(HandlerInstalls(k)) <= 1
             /\ HandlerInstalls(k) # {} => k \in PassedTries
       /\ \A j \in DOMAIN ops :
             /\ ops[j].op = "pip install" /\ "numpyro" \in ops[j].pkgs =>
                   /\ nb = "likelihoods"
                   /\ ops[j].pkgs = {"numpyro", "jax", "jaxlib"}
                   /\ j > 2
                   /\ ops[j - 1].op = "pip uninstall"
                   /\ ops[j - 1].pkgs = {"jax", "jaxlib"}
                   /\ ops[j - 2].op = "import" /\ ops[j - 2].failed
                   /\ ops[j - 2].pkgs = {"numpyro"}
             /\ ops[j].op = "pip uninstall" =>
                   /\ j < Len(ops)
                   /\ ops[j + 1].op = "pip install"
                   /\ "numpyro" \in ops[j + 1].pkgs
                   /\ \A i \in 1..(j - 1) :
                         ~(ops[i].op = "pip install" /\ "jax" \in ops[i].pkgs)

\* The likelihoods install cell ran to its end: tinygp imported, the import
\* of numpyro failed and its handler ran, and arviz was still checked.
C25_Witness ==
    /\ nb = "likelihoods"
    /\ icell = "imports"
    /\ \E i, j, k \in DOMAIN ops :
          /\ i < j /\ j + 2 < k
          /\ ops[i].op = "import" /\ ops[i].pkgs = {"tinygp"} /\ ~ops[i].failed
          /\ ops[j].op = "import" /\ ops[j].pkgs = {"numpyro"} /\ ops[j].failed
          /\ ops[j + 1].op = "pip uninstall"
          /\ ops[j + 2].op = "pip install" /\ ~ops[j + 2].failed
          /\ ops[k].op = "import" /\ ops[k].pkgs = {"arviz"}

(***************************************************************************)
(*            Claims on the execution of the notebooks' cells              *)
(***************************************************************************)

IsPrefix(a, b) == Len(a) <= Len(b) /\ \A i \in 1..Len(a) : a[i] = b[i]

\* C11: the cells of a notebook run one at a time, in document order; no
\* cell's own code starts a thread, a process or a task; and parallel work
\* (the two MCMC chains) exists only while the one running cell waits inside
\* a library call.
C11_OneCellAtATime ==
    /\ Cardinality(running) <= 1
    /\ book # "<none>" => IsPrefix(started, Cells(book))
    /\ tasks = {}
    /\ workers # {} =>
          /\ incall # 0
          /\ running = {[cell |-> Statements(book)[incall].cell, at |-> incall]}
    /\ incall # 0 => Statements(book)[incall].chains > 0

\* One of the two chains of mcmc.run has finished, the other has not, and
\* the cell that called it is the only one running; cells before it are done.
C11_Witness ==
    /\ book = "likelihoods"
    /\ incall # 0
    /\ Cardinality(workers) = 1
    /\ Cardinality(running) = 1
    /\ Len(started) = 3
    /\ Len(queue) = 3

\* C20: every name a statement reads is bound when the read happens, a
\* global name read inside a function counting when the function is used.
C20_BoundBeforeRead == unbound_reads = {}

\* plot_multiband_sample, defined before np, plt, X and band_id were bound,
\* has been called, and loss of the deep-kernel notebook has been used
\* after model was assigned.
C20_Witness ==
    \/ /\ book = "quasisep-custom"
       /\ \E d \in fdefs :
             d.fn = "plot_multiband_sample" /\ {"X", "band_id"} \subseteq d.free
       /\ \E r \in running : Statements(book)[r.at].lines[1] > 149
       /\ {"X", "band_id", "np", "plt"} \subseteq bound
    \/ /\ book = "transforms"
       /\ \E d \in fdefs : d.fn = "loss" /\ "model" \in d.free
       /\ "loss_grad_fn" \in bound

(***************************************************************************)
(*                     Claims on the intro notebook                        *)
(***************************************************************************)

SigmaLevels == ToArray(<<228, 1587, 5000, 8413, 9772>>)

\* C16: the two shaded bands of the MCMC plot are the 1-sigma and the
\* 2-sigma credible regions and the line is the median: q[2] is the median,
\* (q[1], q[-2]) bound the 1-sigma region and (q[0], q[-1]) the 2-sigma one.
C16_SigmaBands ==
    called = "np.percentile" =>
       LET sigma == np_percentile(given.samples, SigmaLevels)
       IN  /\ returned.line = Item(sigma, 2)
           /\ returned.inner = <<Item(sigma, 1), Item(sigma, -2)>>
           /\ returned.outer = <<Item(sigma, 0), Item(sigma, -1)>>

\* C17: in model(x, y), MCMC and SVI version alike, the site log_rate is a
\* sample site that is never conditioned on data, and obs is the only site
\* that receives obs=y: with data it is the one observed site, and when y
\* is None no site is observed.
C17_LogRateLatent ==
    called = "model" =>
       /\ \E i \in DOMAIN returned : returned[i].name = "log_rate"
       /\ \A i \in DOMAIN returned :
             /\ returned[i].name = "log_rate" =>
                   /\ returned[i].type = "sample"
                   /\ ~returned[i].is_observed
                   /\ returned[i].value = None
             /\ returned[i].is_observed =>
                   /\ returned[i].name = "obs"
                   /\ returned[i].value = given.y
             /\ returned[i].name = "obs" =>
                   returned[i].is_observed = ~given.y.is_none
       /\ given.y = None => \A i \in DOMAIN returned : ~returned[i].is_observed

\* The SVI version of model has run on counts that are not all zero: obs
\* is observed, log_rate is not.
C17_Witness ==
    /\ called = "model"
    /\ given.version = "SVI"
    /\ ~given.y.is_none
    /\ \E i \in DOMAIN given.y.value : given.y.value[i] > 0
    /\ \E i \in DOMAIN returned :
          returned[i].name = "obs" /\ returned[i].is_observed
    /\ \E i \in DOMAIN returned :
          returned[i].name = "log_rate" /\ ~returned[i].is_observed

\* The least argument whose exponential is not rounded to zero.
ExpUnderflow == 0 - (FracBits + 1) * Q

TrainingInStep ==
    /\ iter \in 0..NSteps
    /\ lpc = "for" =>
          net_params.made_by = iter - 1 /\ opt_state.made_by = iter - 1
    /\ lpc \in {"loss_grad_fn", "tx.update", "apply_updates"} =>
          /\ i_loop = iter - 1
          /\ net_params.made_by = i_loop - 1
    /\ lpc = "loss_grad_fn" => opt_state.made_by = i_loop - 1
    /\ lpc = "tx.update" =>
          /\ loss_value.at = i_loop - 1
          /\ loss_value.of = GPLoss(net_params, x_data, y_data, t_grid)
          /\ grads.at = i_loop - 1
          /\ opt_state.made_by = i_loop - 1
    /\ lpc = "apply_updates" =>
          /\ updates.grads_at = i_loop - 1
          /\ updates.state = i_loop - 1
          /\ opt_state.made_by = i_loop
    /\ lpc \in {"plot", "done"} =>
          /\ iter = NSteps
          /\ i_loop = NSteps - 1
          /\ net_params.made_by = NSteps - 1
          /\ opt_state.made_by = NSteps - 1

\* C23: the training loop makes exactly NSteps (1000 in the notebook) update
\* steps and stops; step i evaluates the loss and its gradients at the
\* params made by step i - 1 and updates with the opt_state made by step
\* i - 1; no statement of the training cell changes the data x, y, t.
C23_TrainingLoop ==
    /\ []TrainingInStep
    /\ [][lpc # "71dd3917" => UNCHANGED <<x_data, y_data, t_grid>>]_vars

\* The loop has ended after NSteps steps that moved the parameters, on two
\* data points at different inputs.
C23_Witness ==
    /\ lpc = "done"
    /\ iter = NSteps
    /\ net_params.log_sigma # 0
    /\ x_data[0] < x_data[1]
    /\ loss_value.at = NSteps - 1

(***************************************************************************)
(*                    Claims on the SVI model and guide                    *)
(***************************************************************************)

\* The names of the sites of a trace that are of a type and observed or not.
SiteNames(trace, type, observed) ==
    { trace[i].name : i \in { k \in DOMAIN trace :
                                 /\ trace[k].type = type
                                 /\ trace[k].is_observed = observed } }

\* C24: in the SVI setup, where the data y are given, the sample sites of
\* the guide are exactly the latent sample sites of the model, the single
\* site log_rate; obs, the observed site of the model, is no site of the
\* guide; the parameters of the model are mean, sigma and rho, those of the
\* guide log_rate_mu and log_rate_sigma, and no name is in both.
C24_GuideMatchesModel ==
    called = "svi" =>
       LET m == returned.model
           g == returned.guide
       IN  /\ SiteNames(g, "sample", TRUE) = {}
           /\ ~given.y.is_none =>
                 /\ SiteNames(g, "sample", FALSE) = SiteNames(m, "sample", FALSE)
                 /\ SiteNames(m, "sample", FALSE) = {"log_rate"}
                 /\ SiteNames(m, "sample", TRUE) = {"obs"}
           /\ \A i \in DOMAIN g : g[i].name # "obs"
           /\ SiteNames(m, "param", FALSE) = {"mean", "sigma", "rho"}
           /\ SiteNames(g, "param", FALSE) = {"log_rate_mu", "log_rate_sigma"}
           /\ SiteNames(m, "param", FALSE) \cap SiteNames(g, "param", FALSE) = {}

\* The guide and the model have run on counts that are not all equal.
C24_Witness ==
    /\ called = "svi"
    /\ ~given.y.is_none
    /\ \E i, k \in DOMAIN given.y.value : given.y.value[i] < given.y.value[k]
    /\ Len(returned.guide) = 3
    /\ Len(returned.model) = 5

\* C27: the value log_rate_mu starts at is finite for every input: zero
\* everywhere when y is None, and log(y + 1) otherwise, which is at least 0
\* for a count y >= 0 and exactly 0, not minus infinity, for a zero count.
C27_FiniteInit ==
    called = "svi" =>
       LET mu == returned.guide[1]
       IN  /\ mu.name = "log_rate_mu"
           /\ \A k \in DOMAIN mu.fn :
                 /\ mu.fn[k].kind = "finite"
                 /\ mu.fn[k].val >= 0
                 /\ given.y.is_none => mu.fn[k] = Finite(0)
                 /\ ~given.y.is_none =>
                       /\ mu.fn[k] = jnp_log((given.y.value[k] + 1) * Q)
                       /\ given.y.value[k] = 0 => mu.fn[k] = Finite(0)
                       /\ given.y.value[k] > 0 => mu.fn[k].val > 0
                       /\ FExp(mu.fn[k].val) <= (given.y.value[k] + 1) * Q
           /\ given.y.is_none => DOMAIN mu.fn = DOMAIN given.x
           /\ ~given.y.is_none => DOMAIN mu.fn = DOMAIN given.y.value

\* The guide has run on data with a zero count and a positive count.
C27_Witness ==
    /\ called = "svi"
    /\ ~given.y.is_none
    /\ \E k \in DOMAIN given.y.value :
          given.y.value[k] = 0 /\ returned.guide[1].fn[k] = Finite(0)
    /\ \E k \in DOMAIN given.y.value :
          given.y.value[k] > 0 /\ returned.guide[1].fn[k].val > 0

=============================================================================
